---- MODULE Spec2Model ----
(***************************************************************************)
(* Travel-wallet bot: the rate cache of api_client.convert, the per-user   *)
(* conversation state machine of bot.py and the ledger it drives.          *)
(*                                                                         *)
(* Python floats are modelled as exact rationals [n, d] in lowest terms;   *)
(* strings that are split, joined or parsed are sequences of tokens.       *)
(***************************************************************************)
EXTENDS Integers, Sequences, FiniteSets, TLC

\* ------------------------------------------------------------------------
\* Bounds of the model
\* ------------------------------------------------------------------------
MaxTime == 2          \* clock instants after the first
MaxTrips == 1         \* trips a run of the flow specification creates
MaxEvents == 1        \* bare-number prompts (confirm buttons) a ledger run issues
MaxExpenses == 2      \* expense rows a ledger run commits

\* ------------------------------------------------------------------------
\* Exact arithmetic standing for Python float arithmetic
\* ------------------------------------------------------------------------
Abs(x) == IF x < 0 THEN -x ELSE x

RECURSIVE Gcd(_, _)
Gcd(a, b) == IF b = 0 THEN a ELSE Gcd(b, a % b)

Rat(n, d) ==
    LET g == Gcd(Abs(n), Abs(d))
        s == IF d < 0 THEN -1 ELSE 1
    IN  [n |-> (s * n) \div g, d |-> (s * d) \div g]

RInt(i) == [n |-> i, d |-> 1]
RZero == RInt(0)
ROne == RInt(1)
RMul(a, b) == Rat(a.n * b.n, a.d * b.d)
RDiv(a, b) == Rat(a.n * b.d, a.d * b.n)
RSub(a, b) == Rat(a.n * b.d - b.n * a.d, a.d * b.d)
RAdd(a, b) == Rat(a.n * b.d + b.n * a.d, a.d * b.d)
RLt(a, b) == a.n * b.d < b.n * a.d
RLe(a, b) == a.n * b.d <= b.n * a.d
RMax(a, b) == IF RLt(a, b) THEN b ELSE a

\* Python 3 round(): to the nearest integer, ties to the even one.
RoundHalfEven(r) ==
    LET q == r.n \div r.d
        twice == 2 * (r.n - q * r.d)
    IN  IF twice < r.d THEN q
        ELSE IF twice > r.d THEN q + 1
        ELSE IF q % 2 = 0 THEN q ELSE q + 1

\* ------------------------------------------------------------------------
\* api_client.py: the rate cache
\* ------------------------------------------------------------------------
CONVERT_CACHE_TTL == 300

\* max(cached amount, 1e-9): the floor of the cached principal.
CacheFloor == Rat(1, 1000000000)

\* str.upper() on the words of the model, and on a text.
Upper(s) ==
    CASE s = "rub" -> "RUB"
      [] s = "thb" -> "THB"
      [] OTHER -> s

\* A key built from the currency codes as the caller wrote them.
TextAsGiven(t) == t

UpperText(t) ==
    [i \in DOMAIN t |-> IF t[i].k = "w" THEN [t[i] EXCEPT !.s = Upper(t[i].s)] ELSE t[i]]

\* Texts a failure can carry in "info", as words (the Russian ones
\* transliterated).
InfoConnect == <<"Ne udalos svyazatsya s API:", "HTTPConnectionPool(host='api.exchangerate.host', port=80):", "Max retries exceeded with url">>
InfoTimeout == <<"Ne udalos svyazatsya s API:", "HTTPConnectionPool(host='api.exchangerate.host', port=80):", "Read timed out.">>
InfoDecode == <<"Expecting value: line 1 column 1 (char 0)">>
InfoLimit == <<"Your monthly usage limit has been reached.">>
InfoKey == <<"You have not supplied a valid API Access Key.">>
InfoUnknownDict == <<"Neizvestnaya oshibka API.">>
InfoUnknownFlat == <<"Oshibka API.">>

\* What requests.get(...).json() can do: raise RequestException (a refused
\* connection, a timeout), raise ValueError (a body that is no JSON), or
\* return the provider's JSON object: success false with an error object,
\* success false with a flat error, or success true with query and result
\* ("echo" is FALSE when the object carries no query.amount); or return JSON
\* that is no object (a list, null), on which data.get raises AttributeError
\* out of convert.
ProviderFailures ==
    { [kind |-> "request_exception", text |-> InfoConnect],
      [kind |-> "request_exception", text |-> InfoTimeout],
      [kind |-> "value_error", text |-> InfoDecode],
      [kind |-> "error_object", text |-> InfoLimit],
      [kind |-> "error_object", text |-> InfoKey],
      [kind |-> "error_object", text |-> <<>>],
      [kind |-> "error_flat", text |-> <<>>],
      [kind |-> "not_object", text |-> <<>>] }

\* The quotes the provider gives the bot, which asks for 1 unit: the echoed
\* principal is the one asked for; a result of 0 is what convert reads from
\* an object without "result".
ProviderQuotes ==
    { [echo |-> TRUE, amount |-> ROne, result |-> RInt(2)],
      [echo |-> TRUE, amount |-> ROne, result |-> RZero] }

\* The quotes of the cache specification, whose callers ask for any amount:
\* no echoed principal, a principal of 2 and a principal of 0 (under the
\* floor); its failures are one of each kind.
CacheFailures ==
    { f \in ProviderFailures : f.text \in {InfoConnect, InfoDecode, InfoLimit} \/ f.kind = "error_flat" }

CacheQuotes ==
    { [echo |-> FALSE, amount |-> RZero, result |-> Rat(1, 4)],
      [echo |-> TRUE, amount |-> RInt(2), result |-> ROne],
      [echo |-> TRUE, amount |-> RZero, result |-> ROne] }

Outcomes(failures, quotes) ==
    { [kind |-> f.kind, text |-> f.text, echo |-> FALSE, amount |-> RZero, result |-> RZero] :
        f \in failures }
    \cup
    { [kind |-> "ok", text |-> <<>>, echo |-> q.echo, amount |-> q.amount, result |-> q.result] :
        q \in quotes }

ProviderOutcomes == Outcomes(ProviderFailures, ProviderQuotes)
CacheOutcomes == Outcomes(CacheFailures, CacheQuotes)

Failure(error, code, info) ==
    [success |-> FALSE, error |-> error, code |-> code, info |-> info,
     from |-> <<>>, to |-> <<>>, amount |-> RZero, result |-> RZero]

Success(from, to, amount, result) ==
    [success |-> TRUE, error |-> "", code |-> "", info |-> <<>>,
     from |-> from, to |-> to, amount |-> amount, result |-> result]

\* A lookup that ignores the age of the entry.
CacheFreshNoTTL(c, t, key) ==
    /\ key \in DOMAIN c
    /\ c[key].res.success

\* The cache lookup at the head of convert: the entry is used when it is
\* younger than the TTL and holds a success.
CacheFresh(c, t, key) ==
    /\ key \in DOMAIN c
    /\ t - c[key].at < CONVERT_CACHE_TTL
    /\ c[key].res.success

\* A hit that returns the cached result as it is.
HitResultUnscaled(entry, from, to, amount) ==
    Success(from, to, amount, entry.result)

\* The value returned on a hit: the cached quote scaled to the amount.
HitResult(entry, from, to, amount) ==
    LET rate == RDiv(entry.result, RMax(entry.amount, CacheFloor))
    IN  Success(from, to, amount, RMul(amount, rate))

\* The value built from the provider's answer on a miss.
FetchResult(from, to, amount, o) ==
    CASE o.kind = "request_exception" -> Failure("request_failed", "", o.text)
      [] o.kind = "value_error" -> Failure("invalid_response", "", o.text)
      [] o.kind = "error_object" ->
            Failure("api_error", "?", IF o.text = <<>> THEN InfoUnknownDict ELSE o.text)
      [] o.kind = "error_flat" -> Failure("api_error", "err", InfoUnknownFlat)
      [] o.kind = "not_object" -> Failure("AttributeError", "", <<>>)
      [] OTHER -> Success(from, to, IF o.echo THEN o.amount ELSE amount, o.result)

\* A store that keeps failures too.
StoreAnyResult(c, key, res, t) ==
    [k \in DOMAIN c \cup {key} |-> IF k = key THEN [res |-> res, at |-> t] ELSE c[k]]

\* What a miss leaves in the cache: only a success is stored.
StoreResult(c, key, res, t) ==
    IF res.success
    THEN [k \in DOMAIN c \cup {key} |-> IF k = key THEN [res |-> res, at |-> t] ELSE c[k]]
    ELSE c

\* convert(access_key, from_currency, to_currency, amount) with the cache c
\* at time t, the provider answering o if it is asked: the value returned,
\* the cache left behind, and whether the provider was called.
Convert(c, t, from_currency, to_currency, amount, o) ==
    LET from == UpperText(from_currency)
        to == UpperText(to_currency)
        key == <<from, to>>
    IN  IF CacheFresh(c, t, key)
        THEN [ret |-> HitResult(c[key].res, from, to, amount), cache |-> c, called |-> FALSE]
        ELSE LET res == FetchResult(from, to, amount, o)
             IN  [ret |-> res, cache |-> StoreResult(c, key, res, t), called |-> TRUE]

\* ------------------------------------------------------------------------
\* Strings: a text is a sequence of tokens. A token is a word, the field
\* separator "|", white space, an integer literal or a float literal.
\* ------------------------------------------------------------------------
Word(w) == [k |-> "w", s |-> w, v |-> RZero]
Pipe == [k |-> "|", s |-> "|", v |-> RZero]
Space == [k |-> " ", s |-> " ", v |-> RZero]
IntLit(i) == [k |-> "i", s |-> "", v |-> RInt(i)]
FloatLit(r) == [k |-> "f", s |-> "", v |-> r]

\* f"{x}" of a str, a float and an int.
WordText(w) == <<Word(w)>>
FormatFloat(r) == <<FloatLit(r)>>
FormatInt(i) == <<IntLit(i)>>

\* str.strip()
RECURSIVE LStrip(_)
LStrip(t) == IF t # <<>> /\ Head(t).k = " " THEN LStrip(Tail(t)) ELSE t

RECURSIVE RStrip(_)
RStrip(t) ==
    IF t # <<>> /\ t[Len(t)].k = " " THEN RStrip(SubSeq(t, 1, Len(t) - 1)) ELSE t

Strip(t) == RStrip(LStrip(t))

\* The index of the first separator of t, 0 if there is none.
RECURSIVE FirstPipe(_, _)
FirstPipe(t, i) ==
    IF i > Len(t) THEN 0 ELSE IF t[i].k = "|" THEN i ELSE FirstPipe(t, i + 1)

\* str.split("|", maxsplit): at most maxsplit + 1 parts, the last one
\* keeping its separators.
RECURSIVE Split(_, _)
Split(t, maxsplit) ==
    LET i == FirstPipe(t, 1)
    IN  IF maxsplit = 0 \/ i = 0 THEN <<t>>
        ELSE <<SubSeq(t, 1, i - 1)>> \o Split(SubSeq(t, i + 1, Len(t)), maxsplit - 1)

\* "|".join(parts), as the f-strings of the handlers build a payload.
RECURSIVE Join(_)
Join(parts) ==
    IF Len(parts) = 0 THEN <<>>
    ELSE IF Len(parts) = 1 THEN parts[1]
    ELSE parts[1] \o <<Pipe>> \o Join(Tail(parts))

\* float(s) and int(s): defined on a single literal (white space around it
\* allowed); anything else raises ValueError.
IsFloat(t) == Len(Strip(t)) = 1 /\ Strip(t)[1].k \in {"i", "f"}
FloatOf(t) == Strip(t)[1].v
IsInt(t) == Len(Strip(t)) = 1 /\ Strip(t)[1].k = "i"
IntOf(t) == Strip(t)[1].v.n

\* is_number_message(text): the text, stripped, matches ^-?\d+\.?\d*$.
is_number_message(text) == IsFloat(text)

\* parse_amount(text)
parse_amount(text) == FloatOf(text)

\* An amount check that lets zero through.
NonNegativeAmount(x) == RLe(RZero, x)

\* An amount check that lets every number through.
AnyAmount(x) == TRUE

\* The amount check of the flow states and of the bare-number prompt.
PositiveAmount(x) == RLt(RZero, x)

\* ------------------------------------------------------------------------
\* The state
\* ------------------------------------------------------------------------
VARIABLES
    cache,       \* _convert_cache: (from, to) -> [res, at]
    now,         \* time.time()
    conv,        \* the last convert call: its arguments, result, provider use
    ustate,      \* conversation state store: user -> [state, data]
    trips,       \* ledger: trip id -> trip row
    active,      \* active-trip pointer: user -> trip id, 0 for none
    expenses,    \* ledger: the expense rows, oldest first
    buttons,     \* the confirm buttons sent so far (ex_<trip>_<dest>_<home>)
    nextTripId,  \* the id the next trip gets
    nextEvent,   \* the number the next bare-number prompt gets
    out,         \* what the last handler sent, or the exception it raised
    typed,       \* the text of the message the last handler was given, if any
    workers,     \* the pool's threads handling a confirm callback
    limits       \* how many trips, prompts and expense rows the run explores

vars == <<cache, now, conv, ustate, trips, active, expenses, buttons,
          nextTripId, nextEvent, out, typed, workers, limits>>

cacheVars == <<cache, now, conv>>
clockVars == <<cache, now>>
ledgerVars == <<trips, active, expenses, nextTripId>>
botVars == <<ustate, trips, active, expenses, buttons, nextTripId, nextEvent, out, typed>>

Users == {1, 2}
NumThreads == 2
Threads == 1 .. NumThreads

NoConv ==
    [from |-> <<>>, to |-> <<>>, amount |-> RZero, ret |-> Failure("", "", <<>>),
     called |-> FALSE, hit |-> FALSE, before |-> <<>>, at |-> 0]

Idle == [state |-> "", data |-> <<>>]
NoOut == [to |-> 0, msg |-> "", exc |-> "", args |-> <<>>]
\* The message m sent to u: msg names the fixed text, args are the values
\* put into it (none unless said otherwise).
Sent(u, m) == [to |-> u, msg |-> m, exc |-> "", args |-> <<>>]
NoText == <<>>
IdleWorker ==
    [pc |-> "idle", user |-> 0, trip |-> 0, amount_dest |-> RZero,
     amount_home |-> RZero, event |-> 0, ok |-> FALSE, seen |-> <<>>]

\* The clock is read at these instants: 0, 299, 300, 599, 600, ...
Instant(k) == CONVERT_CACHE_TTL * (k \div 2) + (CONVERT_CACHE_TTL - 1) * (k % 2)
NextInstant(t) ==
    IF t % CONVERT_CACHE_TTL = 0 THEN t + (CONVERT_CACHE_TTL - 1) ELSE t + 1

\* ------------------------------------------------------------------------
\* The storage operations the handlers call (db module)
\* ------------------------------------------------------------------------
\* db.set_user_state / db.clear_state
SetUserState(us, u, st, data) == [us EXCEPT ![u] = [state |-> st, data |-> data]]
\* A clear_state that leaves the state stored.
KeepStored(us, u) == us
ClearState(us, u) == [us EXCEPT ![u] = Idle]
\* db.get_trip(trip_id, user_id): the row, if the trip exists and is the user's.
HasTrip(tr, id, u) == id \in DOMAIN tr /\ tr[id].owner = u

\* db.get_user_trips(user_id)
UserTrips(tr, u) == {id \in DOMAIN tr : tr[id].owner = u}

\* db.create_trip: the new row; the balance is the amount in the
\* destination currency.
NewTrip(u, name, home, dest, rate, amount_home, amount_dest) ==
    [owner |-> u, name |-> name, home |-> home, dest |-> dest, rate |-> rate,
     balance |-> amount_dest, initial |-> amount_dest]

\* An add_expense that does not look at who owns the trip.
AddExpenseAnyOwner(tr, id, u, amount_dest) ==
    /\ id \in DOMAIN tr
    /\ RLt(RZero, amount_dest)
    /\ RLe(amount_dest, tr[id].balance)

\* An add_expense without the balance test.
AddExpenseUnchecked(tr, id, u, amount_dest) ==
    /\ HasTrip(tr, id, u)
    /\ RLt(RZero, amount_dest)

\* db.add_expense: whether the expense is accepted.
AddExpenseAccepts(tr, id, u, amount_dest) ==
    /\ HasTrip(tr, id, u)
    /\ RLt(RZero, amount_dest)
    /\ RLe(amount_dest, tr[id].balance)

\* An add_expense that appends the row and leaves the balance alone.
RowOnly(tr, id, amount_dest) == tr

\* db.add_expense: the ledger after an accepted expense.
Debit(tr, id, amount_dest) ==
    [tr EXCEPT ![id].balance = RSub(@, amount_dest)]

ExpenseRow(id, amount_dest, amount_home, ev) ==
    [trip |-> id, amount_dest |-> amount_dest, amount_home |-> amount_home,
     event |-> ev]

\* An update_trip_rate that re-prices the remaining balance at the new rate.
UpdateRateRepricing(tr, id, new_rate) ==
    [tr EXCEPT ![id].rate = new_rate,
               ![id].balance = RDiv(RMul(tr[id].balance, tr[id].rate), new_rate)]

\* db.update_trip_rate: the rate field only.
UpdateRate(tr, id, new_rate) == [tr EXCEPT ![id].rate = new_rate]

\* A delete_trip that leaves the expense rows in place.
KeepExpenses(ex, id) == ex

\* db.delete_trip: the trip and its expenses go.
WithoutTrip(tr, id) == [t \in DOMAIN tr \ {id} |-> tr[t]]
WithoutExpensesOf(ex, id) == SelectSeq(ex, LAMBDA e : e.trip # id)

\* ------------------------------------------------------------------------
\* The inputs
\* ------------------------------------------------------------------------
\* country_to_currency (external lookup): the code, "" when not found.
country_to_currency(text) ==
    IF text = WordText("Rossiya") THEN "RUB"
    ELSE IF text = WordText("Tailand") THEN "THB"
    ELSE ""

\* len(country) == 3 and country.isalpha()
IsAlpha3(text) == text = WordText("rub")

MENU_BTN_NEWTRIP == WordText("MENU_BTN_NEWTRIP")
MENU_BTN_TRIPS == WordText("MENU_BTN_TRIPS")
MENU_BTN_BALANCE == WordText("MENU_BTN_BALANCE")
MENU_BTN_HISTORY == WordText("MENU_BTN_HISTORY")
MENU_BTN_SETRATE == WordText("MENU_BTN_SETRATE")
MENU_BTN_DELETETRIP == WordText("MENU_BTN_DELETETRIP")

MenuTexts ==
    {MENU_BTN_NEWTRIP, MENU_BTN_TRIPS, MENU_BTN_BALANCE, MENU_BTN_HISTORY,
     MENU_BTN_SETRATE, MENU_BTN_DELETETRIP}

CountryTexts ==
    {WordText("Rossiya"), <<Space, Word("Tailand"), Space>>, WordText("rub"), WordText("Narnia")}

NumberTexts ==
    {FormatInt(-5), FormatInt(0), FormatInt(4), FormatFloat(Rat(5, 2))}

MessageTexts == CountryTexts \cup NumberTexts \cup MenuTexts \cup {WordText("hello")}

\* The currency pairs the callers of the cache specification ask for.
CachePairs ==
    { <<WordText("RUB"), WordText("THB")>>, <<WordText("rub"), WordText("thb")>>,
      <<WordText("THB"), WordText("RUB")>> }

CacheAmounts == {ROne, RInt(2)}

\* ------------------------------------------------------------------------
\* bot.py: the expense confirm button
\* ------------------------------------------------------------------------
\* expense_confirm_markup: int(round(amount * 100))
EncodeAmount(x) == RoundHalfEven(RMul(x, RInt(100)))

\* cb_expense_confirm: int(field) / 100.0
DecodeAmount(n) == Rat(n, 100)

\* handle_message: the home amount shown and put on the button.
HomeAmount(amount_dest, rate) == RMul(amount_dest, rate)

Button(chat, trip_id, amount_dest, amount_home, ev) ==
    [chat |-> chat, trip |-> trip_id, a_d |-> EncodeAmount(amount_dest),
     a_h |-> EncodeAmount(amount_home), event |-> ev]

\* ------------------------------------------------------------------------
\* bot.py: what a handler sends
\* ------------------------------------------------------------------------
Reply(u, m) == out' = Sent(u, m)
Raise(u, e) == out' = [to |-> u, msg |-> "", exc |-> e, args |-> <<>>]

\* The messages that tell the user to start the flow again.
StartOverMsgs ==
    {"start_over_initial_sum", "start_over_data_error", "start_over_manual_rate",
     "session_expired"}

\* The read-only views of the menu.
TripsView(u) == IF UserTrips(trips, u) = {} THEN "no_trips" ELSE "trips_list"
SetrateView(u) == IF UserTrips(trips, u) = {} THEN "no_trips" ELSE "setrate_list"
DeleteView(u) == IF UserTrips(trips, u) = {} THEN "no_trips" ELSE "delete_list"
BalanceView(u) ==
    IF active[u] = 0 THEN "no_active_trip"
    ELSE IF ~HasTrip(trips, active[u], u) THEN "trip_not_found"
    ELSE "balance"
HistoryView(u) ==
    IF active[u] = 0 THEN "no_active_trip"
    ELSE IF ~HasTrip(trips, active[u], u) THEN "trip_not_found"
    ELSE IF SelectSeq(expenses, LAMBDA e : e.trip = active[u]) = <<>> THEN "history_empty"
    ELSE "history"

View(u, which) ==
    CASE which = "trips" -> TripsView(u)
      [] which = "balance" -> BalanceView(u)
      [] which = "history" -> HistoryView(u)
      [] which = "setrate" -> SetrateView(u)
      [] which = "deletetrip" -> DeleteView(u)
      [] OTHER -> "main_menu"

ViewOnly(u, which) ==
    /\ Reply(u, View(u, which))
    /\ UNCHANGED <<ustate, ledgerVars, buttons, nextEvent>>

\* ------------------------------------------------------------------------
\* bot.py: the new-trip flow
\* ------------------------------------------------------------------------
\* start_new_trip_flow (a run starts flows while it may still create a trip)
start_new_trip_flow(u) ==
    /\ nextTripId <= limits.trips
    /\ ustate' = SetUserState(ustate, u, "newtrip_country_from", <<>>)
    /\ Reply(u, "ask_country_from")
    /\ UNCHANGED <<ledgerVars, buttons, nextEvent>>

\* handle_newtrip_country_from
handle_newtrip_country_from(u, text) ==
    LET country == Strip(text)
        cur == country_to_currency(country)
    IN  IF cur = ""
        THEN /\ Reply(u, "country_from_retry")
             /\ UNCHANGED <<ustate, ledgerVars, buttons, nextEvent>>
        ELSE /\ ustate' = SetUserState(ustate, u, "newtrip_country_to", WordText(cur))
             /\ Reply(u, "ask_country_to")
             /\ UNCHANGED <<ledgerVars, buttons, nextEvent>>

\* handle_newtrip_country_to: the destination currency of the input, <<>>
\* when neither the lookup nor the 3-letter rule gives one.
DestCurrency(country) ==
    IF country_to_currency(country) # "" THEN WordText(country_to_currency(country))
    ELSE IF IsAlpha3(country) THEN UpperText(country)
    ELSE <<>>

\* A comparison that never finds the two currencies equal.
NeverSameCurrency(cur, home_currency) == FALSE

\* handle_newtrip_country_to: the destination must differ from home.
SameCurrency(cur, home_currency) == cur = home_currency

handle_newtrip_country_to(u, text, state_data) ==
    LET home_currency == state_data
        country == Strip(text)
        cur == DestCurrency(country)
    IN  IF cur = <<>>
        THEN /\ Reply(u, "country_to_retry")
             /\ UNCHANGED <<ustate, ledgerVars, buttons, nextEvent>>
        ELSE IF SameCurrency(cur, home_currency)
        THEN /\ Reply(u, "dest_equals_home")
             /\ UNCHANGED <<ustate, ledgerVars, buttons, nextEvent>>
        ELSE /\ ustate' = SetUserState(ustate, u, "newtrip_choose_rate_source",
                                       Join(<<home_currency, cur, country>>))
             /\ Reply(u, "ask_rate_source")
             /\ UNCHANGED <<ledgerVars, buttons, nextEvent>>

\* The input stored as typed, not inverted.
ManualRateAsTyped(manual_dest_per_home) == manual_dest_per_home

\* handle_message, state newtrip_manual_rate: the stored rate is
\* 1 / input (home units per 1 destination unit).
ManualRate(manual_dest_per_home) == RDiv(ROne, manual_dest_per_home)

handle_newtrip_manual_rate(u, text, state_data) ==
    IF ~is_number_message(text) \/ ~PositiveAmount(parse_amount(text))
    THEN /\ Reply(u, "manual_rate_retry")
         /\ UNCHANGED <<ustate, ledgerVars, buttons, nextEvent>>
    ELSE LET rate == ManualRate(parse_amount(text))
             parts == Split(state_data, 2)
         IN  IF Len(parts) < 2
             THEN /\ ustate' = ClearState(ustate, u)
                  /\ Reply(u, "start_over_manual_rate")
                  /\ UNCHANGED <<ledgerVars, buttons, nextEvent>>
             ELSE LET home_cur == parts[1]
                      dest_cur == parts[2]
                      name == IF Len(parts) > 2 /\ parts[3] # <<>>
                              THEN Strip(parts[3]) ELSE dest_cur
                  IN  /\ ustate' = SetUserState(ustate, u, "newtrip_initial_sum",
                                        Join(<<home_cur, dest_cur, FormatFloat(rate), name>>))
                      /\ Reply(u, "ask_initial_sum")
                      /\ UNCHANGED <<ledgerVars, buttons, nextEvent>>

\* handle_newtrip_initial_sum: the starting balance, amount_home / rate.
InitialBalance(amount_home, rate) == RDiv(amount_home, rate)

\* handle_newtrip_initial_sum: what happens to the conversation state once
\* the trip is created.
AfterCreate(us, u) == ClearState(us, u)

handle_newtrip_initial_sum(u, text, state_data) ==
    LET parts == Split(state_data, 3)
    IN  IF Len(parts) < 4
        THEN /\ ustate' = ClearState(ustate, u)
             /\ Reply(u, "start_over_initial_sum")
             /\ UNCHANGED <<ledgerVars, buttons, nextEvent>>
        ELSE IF ~IsFloat(parts[3])
        THEN /\ Raise(u, "ValueError")
             /\ UNCHANGED <<ustate, ledgerVars, buttons, nextEvent>>
        ELSE IF ~is_number_message(text) \/ ~PositiveAmount(parse_amount(text))
        THEN /\ Reply(u, "initial_sum_retry")
             /\ UNCHANGED <<ustate, ledgerVars, buttons, nextEvent>>
        ELSE IF FloatOf(parts[3]) = RZero
        THEN /\ Raise(u, "ZeroDivisionError")
             /\ UNCHANGED <<ustate, ledgerVars, buttons, nextEvent>>
        ELSE IF parts[1] = parts[2]
        THEN \* db.create_trip fails on home = dest
             /\ Raise(u, "create_trip_failed")
             /\ UNCHANGED <<ustate, ledgerVars, buttons, nextEvent>>
        ELSE LET home_cur == parts[1]
                 dest_cur == parts[2]
                 rate == FloatOf(parts[3])
                 name == parts[4]
                 amount_home == parse_amount(text)
                 amount_dest == InitialBalance(amount_home, rate)
             IN  /\ nextTripId <= limits.trips
                 /\ trips' = [id \in DOMAIN trips \cup {nextTripId} |->
                                IF id = nextTripId
                                THEN NewTrip(u, name, home_cur, dest_cur, rate,
                                             amount_home, amount_dest)
                                ELSE trips[id]]
                 /\ active' = [active EXCEPT ![u] = nextTripId]
                 /\ nextTripId' = nextTripId + 1
                 /\ ustate' = AfterCreate(ustate, u)
                 /\ Reply(u, "trip_created")
                 /\ UNCHANGED <<expenses, buttons, nextEvent>>

\* handle_message, state setrate_trip: the rate stored is the input as typed.
handle_setrate_value(u, text, state_data) ==
    IF ~is_number_message(text) \/ ~PositiveAmount(parse_amount(text))
    THEN /\ Reply(u, "setrate_retry")
         /\ UNCHANGED <<ustate, ledgerVars, buttons, nextEvent>>
    ELSE IF ~IsInt(state_data)
    THEN /\ ustate' = ClearState(ustate, u)
         /\ Reply(u, "main_menu")
         /\ UNCHANGED <<ledgerVars, buttons, nextEvent>>
    ELSE IF ~HasTrip(trips, IntOf(state_data), u)
    THEN /\ ustate' = ClearState(ustate, u)
         /\ Reply(u, "trip_not_found")
         /\ UNCHANGED <<ledgerVars, buttons, nextEvent>>
    ELSE /\ trips' = UpdateRate(trips, IntOf(state_data), parse_amount(text))
         /\ ustate' = ClearState(ustate, u)
         /\ Reply(u, "rate_updated")
         /\ UNCHANGED <<active, expenses, nextTripId, buttons, nextEvent>>

\* handle_message with no state handled above: a bare number.
handle_bare_number(u, text) ==
    IF active[u] = 0
    THEN /\ Reply(u, "choose_trip_first")
         /\ UNCHANGED <<ustate, ledgerVars, buttons, nextEvent>>
    ELSE IF ~HasTrip(trips, active[u], u)
    THEN /\ Reply(u, "trip_not_found")
         /\ UNCHANGED <<ustate, ledgerVars, buttons, nextEvent>>
    ELSE IF ~PositiveAmount(parse_amount(text))
    THEN /\ Reply(u, "positive_amount_please")
         /\ UNCHANGED <<ustate, ledgerVars, buttons, nextEvent>>
    ELSE LET amount_dest == parse_amount(text)
             amount_home == HomeAmount(amount_dest, trips[active[u]].rate)
         IN  /\ nextEvent <= limits.events
             /\ buttons' = buttons \cup
                    {Button(u, active[u], amount_dest, amount_home, nextEvent)}
             /\ nextEvent' = nextEvent + 1
             /\ Reply(u, "expense_prompt")
             /\ UNCHANGED <<ustate, ledgerVars>>

\* The states handle_message hands to the flow engine.
FlowStates ==
    {"newtrip_country_from", "newtrip_country_to", "newtrip_initial_sum",
     "newtrip_manual_rate", "setrate_trip"}

\* handle_message
handle_message(u, text) ==
    LET state == ustate[u].state
        state_data == ustate[u].data
    IN  /\ UNCHANGED <<clockVars, workers, limits>> /\ conv' = NoConv /\ typed' = text
        /\ IF state = "newtrip_country_from" THEN handle_newtrip_country_from(u, text)
           ELSE IF state = "newtrip_country_to"
           THEN handle_newtrip_country_to(u, text, state_data)
           ELSE IF state = "newtrip_initial_sum"
           THEN handle_newtrip_initial_sum(u, text, state_data)
           ELSE IF state = "newtrip_manual_rate"
           THEN handle_newtrip_manual_rate(u, text, state_data)
           ELSE IF state = "setrate_trip" THEN handle_setrate_value(u, text, state_data)
           ELSE IF Strip(text) = MENU_BTN_NEWTRIP THEN start_new_trip_flow(u)
           ELSE IF Strip(text) = MENU_BTN_TRIPS THEN ViewOnly(u, "trips")
           ELSE IF Strip(text) = MENU_BTN_BALANCE THEN ViewOnly(u, "balance")
           ELSE IF Strip(text) = MENU_BTN_HISTORY THEN ViewOnly(u, "history")
           ELSE IF Strip(text) = MENU_BTN_SETRATE THEN ViewOnly(u, "setrate")
           ELSE IF Strip(text) = MENU_BTN_DELETETRIP THEN ViewOnly(u, "deletetrip")
           ELSE IF is_number_message(text) THEN handle_bare_number(u, text)
           ELSE /\ Reply(u, "not_understood")
                /\ UNCHANGED <<ustate, ledgerVars, buttons, nextEvent>>

\* ------------------------------------------------------------------------
\* bot.py: commands
\* ------------------------------------------------------------------------
cmd_start(u) ==
    /\ ustate' = ClearState(ustate, u)
    /\ Reply(u, "main_menu")
    /\ UNCHANGED <<ledgerVars, buttons, nextEvent, clockVars, workers, limits>> /\ conv' = NoConv /\ typed' = NoText

cmd_newtrip(u) == start_new_trip_flow(u) /\ UNCHANGED <<clockVars, workers, limits>> /\ conv' = NoConv /\ typed' = NoText

\* What a menu command or menu callback does to the conversation state.
MenuKeepsState(us, u) == us

\* cmd_switch, cmd_balance, cmd_history, cmd_setrate, cmd_deletetrip
cmd_view(u, which) ==
    /\ Reply(u, View(u, which))
    /\ ustate' = MenuKeepsState(ustate, u)
    /\ UNCHANGED <<ledgerVars, buttons, nextEvent, clockVars, workers, limits>> /\ conv' = NoConv /\ typed' = NoText

\* ------------------------------------------------------------------------
\* bot.py: menu callbacks
\* ------------------------------------------------------------------------
cb_menu_main(u) ==
    /\ Reply(u, "main_menu")
    /\ ustate' = MenuKeepsState(ustate, u)
    /\ UNCHANGED <<ledgerVars, buttons, nextEvent, clockVars, workers, limits>> /\ conv' = NoConv /\ typed' = NoText

cb_menu_newtrip(u) == start_new_trip_flow(u) /\ UNCHANGED <<clockVars, workers, limits>> /\ conv' = NoConv /\ typed' = NoText

\* cb_menu_trips, cb_menu_balance, cb_menu_history, cb_menu_setrate,
\* cb_menu_deletetrip
cb_menu_view(u, which) ==
    /\ Reply(u, View(u, which))
    /\ ustate' = MenuKeepsState(ustate, u)
    /\ UNCHANGED <<ledgerVars, buttons, nextEvent, clockVars, workers, limits>> /\ conv' = NoConv /\ typed' = NoText

cb_switch_trip(u, trip_id) ==
    /\ IF ~HasTrip(trips, trip_id, u)
       THEN Reply(u, "trip_not_found") /\ UNCHANGED active
       ELSE active' = [active EXCEPT ![u] = trip_id] /\ Reply(u, "switched")
    /\ UNCHANGED <<ustate, trips, expenses, nextTripId, buttons, nextEvent,
                   clockVars, workers, limits>> /\ conv' = NoConv /\ typed' = NoText

cb_setrate_choose(u, trip_id) ==
    /\ IF ~HasTrip(trips, trip_id, u)
       THEN Reply(u, "trip_not_found") /\ UNCHANGED ustate
       ELSE /\ ustate' = SetUserState(ustate, u, "setrate_trip", FormatInt(trip_id))
            /\ Reply(u, "ask_new_rate")
    /\ UNCHANGED <<ledgerVars, buttons, nextEvent, clockVars, workers, limits>> /\ conv' = NoConv /\ typed' = NoText

cb_del_choose(u, trip_id) ==
    /\ Reply(u, IF HasTrip(trips, trip_id, u) THEN "confirm_delete" ELSE "trip_not_found")
    /\ UNCHANGED <<ustate, ledgerVars, buttons, nextEvent, clockVars, workers, limits>> /\ conv' = NoConv /\ typed' = NoText

cb_del_cancel(u) ==
    /\ Reply(u, "delete_cancelled")
    /\ UNCHANGED <<ustate, ledgerVars, buttons, nextEvent, clockVars, workers, limits>> /\ conv' = NoConv /\ typed' = NoText

\* cb_del_confirm; db.delete_trip removes the trip with its expenses, and
\* either clears the pointers to it or leaves them dangling (keep).
cb_del_confirm(u, trip_id, keep) ==
    /\ IF ~HasTrip(trips, trip_id, u)
       THEN Reply(u, "delete_failed") /\ UNCHANGED <<trips, expenses, active>>
       ELSE /\ trips' = WithoutTrip(trips, trip_id)
            /\ expenses' = WithoutExpensesOf(expenses, trip_id)
            /\ active' = [x \in Users |->
                            IF active[x] = trip_id /\ ~keep THEN 0 ELSE active[x]]
            /\ Reply(u, "trip_deleted")
    /\ UNCHANGED <<ustate, nextTripId, buttons, nextEvent, clockVars, workers, limits>> /\ conv' = NoConv /\ typed' = NoText

\* ------------------------------------------------------------------------
\* bot.py: the rate-source callbacks of the new-trip flow
\* ------------------------------------------------------------------------
\* The words of cb_newtrip_fetch_rate's limit test that occur in a chunk of
\* failure text: "limit", "rate", "exceeded", "limitation", "maximum".
LimitChunks ==
    {"HTTPConnectionPool(host='api.exchangerate.host', port=80):",
     "Max retries exceeded with url",
     "Your monthly usage limit has been reached."}

is_limit(info) == \E i \in DOMAIN info : info[i] \in LimitChunks

\* A session test that looks at the payload only.
AnySession(st) == st.data # <<>>

\* cb_newtrip_fetch_rate: the stored state is the one the button belongs to.
FetchSession(st) == st.state = "newtrip_choose_rate_source" /\ st.data # <<>>

\* A failure message that carries the failure text along.
FailureMessageEcho(info, cur, home_currency) ==
    [msg |-> IF is_limit(info) THEN "rate_limit_enter_manually"
             ELSE "service_unavailable_enter_manually",
     args |-> <<cur, home_currency, info>>]

\* The message of a failed lookup: one of two fixed texts, chosen by
\* is_limit, followed by the question that names the two currencies.
FailureMessage(info, cur, home_currency) ==
    [msg |-> IF is_limit(info) THEN "rate_limit_enter_manually"
             ELSE "service_unavailable_enter_manually",
     args |-> <<cur, home_currency>>]

\* The inversion of the provider's quote (destination per 1 home).
ProviderRate(api_dest_per_home) == RDiv(ROne, api_dest_per_home)

cb_newtrip_fetch_rate(u, o) ==
    LET st == ustate[u]
        parts == Split(st.data, 2)
    IN  /\ UNCHANGED <<ledgerVars, buttons, nextEvent, workers, limits, now>> /\ typed' = NoText
        /\ IF ~FetchSession(st)
           THEN /\ Reply(u, "session_expired")
                /\ conv' = NoConv
                /\ UNCHANGED <<ustate, cache>>
           ELSE IF Len(parts) < 2
           THEN /\ ustate' = ClearState(ustate, u)
                /\ Reply(u, "main_menu")
                /\ conv' = NoConv
                /\ UNCHANGED cache
           ELSE LET home_currency == parts[1]
                    cur == parts[2]
                    country == IF Len(parts) > 2 THEN Strip(parts[3]) ELSE cur
                    r == Convert(cache, now, home_currency, cur, ROne, o)
                IN  /\ cache' = r.cache
                    /\ conv' = [from |-> home_currency, to |-> cur, amount |-> ROne,
                                ret |-> r.ret, called |-> r.called, hit |-> ~r.called,
                                before |-> cache, at |-> now]
                    /\ IF r.ret.error = "AttributeError"
                       THEN Raise(u, "AttributeError") /\ UNCHANGED ustate
                       ELSE IF ~r.ret.success
                       THEN /\ ustate' = SetUserState(ustate, u, "newtrip_manual_rate",
                                             Join(<<home_currency, cur, country>>))
                            /\ LET fm == FailureMessage(r.ret.info, cur, home_currency)
                               IN  out' = [Sent(u, fm.msg) EXCEPT !.args = fm.args]
                       ELSE IF r.ret.result = RZero
                       THEN Raise(u, "ZeroDivisionError") /\ UNCHANGED ustate
                       ELSE /\ ustate' = SetUserState(ustate, u, "newtrip_confirm_rate",
                                    Join(<<home_currency, cur,
                                           FormatFloat(ProviderRate(r.ret.result)), country>>))
                            /\ Reply(u, "confirm_rate")

cb_newtrip_manual_rate_now(u) ==
    LET st == ustate[u]
        parts == Split(st.data, 2)
    IN  /\ UNCHANGED <<ledgerVars, buttons, nextEvent, clockVars, workers, limits>> /\ conv' = NoConv /\ typed' = NoText
        /\ IF st.state # "newtrip_choose_rate_source" \/ st.data = <<>>
           THEN Reply(u, "session_expired") /\ UNCHANGED ustate
           ELSE IF Len(parts) < 2
           THEN ustate' = ClearState(ustate, u) /\ Reply(u, "main_menu")
           ELSE LET home_cur == parts[1]
                    dest_cur == parts[2]
                    country == IF Len(parts) > 2 THEN Strip(parts[3]) ELSE dest_cur
                IN  /\ ustate' = SetUserState(ustate, u, "newtrip_manual_rate",
                                     Join(<<home_cur, dest_cur, country>>))
                    /\ Reply(u, "ask_manual_rate")

\* A name that is always the destination currency.
DefaultName(parts, dest_cur) == dest_cur

\* cb_newtrip_rate_ok, cb_newtrip_rate_manual: the trip name of the
\* confirm_rate payload, the destination currency when it has none.
PayloadName(parts, dest_cur) ==
    IF Len(parts) > 3 /\ parts[4] # <<>> THEN Strip(parts[4]) ELSE dest_cur

cb_newtrip_rate_ok(u) ==
    LET st == ustate[u]
        parts == Split(st.data, 3)
    IN  /\ UNCHANGED <<ledgerVars, buttons, nextEvent, clockVars, workers, limits>> /\ conv' = NoConv /\ typed' = NoText
        /\ IF st.state # "newtrip_confirm_rate" \/ st.data = <<>>
           THEN Reply(u, "session_expired") /\ UNCHANGED ustate
           ELSE IF Len(parts) < 3
           THEN ustate' = ClearState(ustate, u) /\ Reply(u, "start_over_data_error")
           ELSE LET home_cur == parts[1]
                    dest_cur == parts[2]
                    rate == parts[3]
                    name == PayloadName(parts, dest_cur)
                IN  /\ ustate' = SetUserState(ustate, u, "newtrip_initial_sum",
                                     Join(<<home_cur, dest_cur, rate, name>>))
                    /\ Reply(u, "ask_initial_sum")

cb_newtrip_rate_manual(u) ==
    LET st == ustate[u]
        parts == Split(st.data, 3)
    IN  /\ UNCHANGED <<ledgerVars, buttons, nextEvent, clockVars, workers, limits>> /\ conv' = NoConv /\ typed' = NoText
        /\ IF st.state # "newtrip_confirm_rate" \/ st.data = <<>>
           THEN Reply(u, "session_expired") /\ UNCHANGED ustate
           ELSE IF Len(parts) < 2
           THEN ustate' = ClearState(ustate, u) /\ Reply(u, "main_menu")
           ELSE LET home_cur == parts[1]
                    dest_cur == parts[2]
                    name == PayloadName(parts, dest_cur)
                IN  /\ ustate' = SetUserState(ustate, u, "newtrip_manual_rate",
                                     Join(<<home_cur, dest_cur, name>>))
                    /\ Reply(u, "ask_manual_rate")

\* ------------------------------------------------------------------------
\* bot.py: the expense callbacks
\* ------------------------------------------------------------------------
cb_expense_no(u) ==
    /\ Reply(u, "expense_not_recorded")
    /\ UNCHANGED <<ustate, ledgerVars, buttons, nextEvent, clockVars, workers, limits>> /\ conv' = NoConv /\ typed' = NoText

\* cb_expense_confirm: the button's fields are decoded and handed to
\* db.add_expense, which checks and commits in one step.
\* A confirmation that books the expense on the trip active at the press.
ActiveAtPress(b, active_id) == active_id

\* cb_expense_confirm: trip_id = int(parts[1]), the trip named by the button.
ConfirmTrip(b, active_id) == b.trip

cb_expense_confirm(u, b) ==
    LET trip_id == ConfirmTrip(b, active[u])
        amount_dest == DecodeAmount(b.a_d)
        amount_home == DecodeAmount(b.a_h)
    IN  /\ UNCHANGED <<ustate, active, nextTripId, buttons, nextEvent, clockVars, workers, limits>> /\ conv' = NoConv /\ typed' = NoText
        /\ IF ~AddExpenseAccepts(trips, trip_id, u, amount_dest)
           THEN Reply(u, "expense_declined") /\ UNCHANGED <<trips, expenses>>
           ELSE /\ Len(expenses) < limits.expenses
                /\ trips' = Debit(trips, trip_id, amount_dest)
                /\ expenses' = Append(expenses,
                       ExpenseRow(trip_id, amount_dest, amount_home, b.event))
                /\ Reply(u, "expense_recorded")

\* ------------------------------------------------------------------------
\* The clock
\* ------------------------------------------------------------------------
Tick ==
    /\ now < Instant(MaxTime)
    /\ now' = NextInstant(now)
    /\ UNCHANGED <<cache, conv, botVars, workers, limits>>

\* ------------------------------------------------------------------------
\* The flow specification: the bot from an empty store, its handlers run one
\* at a time, one user at the keyboard; bare numbers are not yet turned
\* into confirm buttons (the ledger specification does that).
\* ------------------------------------------------------------------------
TripIds == 1 .. MaxTrips
Views == {"trips", "balance", "history", "setrate", "deletetrip"}
FlowUsers == {1}

EmptyStore ==
    /\ cache = <<>>
    /\ now = 0
    /\ conv = NoConv
    /\ ustate = [u \in Users |-> Idle]
    /\ trips = <<>>
    /\ active = [u \in Users |-> 0]
    /\ expenses = <<>>
    /\ buttons = {}
    /\ nextTripId = 1
    /\ nextEvent = 1
    /\ out = NoOut
    /\ typed = NoText
    /\ workers = [t \in Threads |-> IdleWorker]

Init ==
    /\ EmptyStore
    /\ limits = [trips |-> MaxTrips, events |-> 0, expenses |-> 0]

Next ==
    \/ \E u \in FlowUsers : cmd_start(u)
    \/ \E u \in FlowUsers : cmd_newtrip(u)
    \/ \E u \in FlowUsers, w \in Views : cmd_view(u, w)
    \/ \E u \in FlowUsers : cb_menu_main(u)
    \/ \E u \in FlowUsers : cb_menu_newtrip(u)
    \/ \E u \in FlowUsers, w \in Views : cb_menu_view(u, w)
    \/ \E u \in FlowUsers, t \in TripIds : cb_switch_trip(u, t)
    \/ \E u \in FlowUsers, t \in TripIds : cb_setrate_choose(u, t)
    \/ \E u \in FlowUsers, t \in TripIds : cb_del_choose(u, t)
    \/ \E u \in FlowUsers : cb_del_cancel(u)
    \/ \E u \in FlowUsers, t \in TripIds, keep \in BOOLEAN : cb_del_confirm(u, t, keep)
    \/ \E u \in FlowUsers, o \in ProviderOutcomes : cb_newtrip_fetch_rate(u, o)
    \/ \E u \in FlowUsers : cb_newtrip_manual_rate_now(u)
    \/ \E u \in FlowUsers : cb_newtrip_rate_ok(u)
    \/ \E u \in FlowUsers : cb_newtrip_rate_manual(u)
    \/ \E u \in FlowUsers, text \in MessageTexts : handle_message(u, text)

Spec == Init /\ [][Next]_vars

\* ------------------------------------------------------------------------
\* The cache specification: convert called for any pair and amount, the
\* provider answering anything, the clock advancing.
\* ------------------------------------------------------------------------
ConvertCall(from, to, amount, o) ==
    LET r == Convert(cache, now, from, to, amount, o)
    IN  /\ cache' = r.cache
        /\ conv' = [from |-> from, to |-> to, amount |-> amount, ret |-> r.ret,
                    called |-> r.called, hit |-> ~r.called, before |-> cache,
                    at |-> now]
        /\ UNCHANGED <<now, botVars, workers, limits>>

InitCache ==
    /\ EmptyStore
    /\ limits = [trips |-> 0, events |-> 0, expenses |-> 0]

NextCache ==
    \/ \E p \in CachePairs, a \in CacheAmounts, o \in CacheOutcomes :
            ConvertCall(p[1], p[2], a, o)
    \/ Tick

SpecCache == InitCache /\ [][NextCache]_vars

\* The last convert call, as the cache saw it.
ConvMade == conv.from # <<>>
ConvKey == <<UpperText(conv.from), UpperText(conv.to)>>
ConvHadEntry == ConvMade /\ ConvKey \in DOMAIN conv.before
ConvEntryAge == conv.at - conv.before[ConvKey].at

\* C5: a convert call made while the pair's stored success is younger than
\* the TTL issues no external call, returns success with
\* result = a2 * result / max(principal, 1e-9), and leaves the cache as it was.
CacheHitProportional ==
    (/\ ConvHadEntry
     /\ conv.before[ConvKey].res.success
     /\ ConvEntryAge < CONVERT_CACHE_TTL)
    => LET e == conv.before[ConvKey].res
       IN  /\ ~conv.called
           /\ conv.ret.success
           /\ conv.ret.result =
                 RMul(conv.amount, RDiv(e.result, RMax(e.amount, CacheFloor)))
           /\ cache = conv.before

\* A hit one time unit before expiry, for twice the cached principal.
CacheHitWitness ==
    /\ ConvHadEntry
    /\ ConvEntryAge = CONVERT_CACHE_TTL - 1
    /\ conv.before[ConvKey].res.amount = ROne
    /\ conv.amount = RInt(2)
    /\ conv.ret.result = Rat(1, 2)
    /\ ~conv.called

\* C6: a convert call made when the pair's entry is at least TTL old calls
\* the provider (once); if that call succeeds the entry becomes the new
\* result stamped with the time of the call, so that a call within the new
\* TTL finds it fresh; if it fails the cache is unchanged.
CacheExpiryRefetches ==
    (ConvHadEntry /\ ConvEntryAge >= CONVERT_CACHE_TTL)
    => /\ conv.called
       /\ conv.ret.success =>
            /\ cache = [conv.before EXCEPT ![ConvKey] = [res |-> conv.ret, at |-> conv.at]]
            /\ (now - conv.at < CONVERT_CACHE_TTL) => CacheFresh(cache, now, ConvKey)
       /\ ~conv.ret.success => cache = conv.before

\* An entry exactly TTL old replaced by a different quote.
CacheExpiryWitness ==
    /\ ConvHadEntry
    /\ ConvEntryAge = CONVERT_CACHE_TTL
    /\ conv.called
    /\ conv.ret.success
    /\ conv.ret.result # conv.before[ConvKey].res.result
    /\ cache[ConvKey].at = conv.at

LedgerRates == {Rat(5, 2), RInt(4)}
LedgerSums == {Rat(5, 2)}

TripOfFlow(u, d, s) ==
    LET rate == FloatOf(FormatFloat(ManualRate(d)))
    IN  NewTrip(u, WordText("THB"), WordText("RUB"), WordText("THB"), rate, s,
                InitialBalance(s, rate))

LedgerTexts == (MessageTexts \ CountryTexts) \ {MENU_BTN_NEWTRIP}

InitLedger ==
    /\ cache = <<>>
    /\ now = 0
    /\ conv = NoConv
    /\ ustate = [u \in Users |-> Idle]
    /\ \E d \in LedgerRates, s \in LedgerSums : trips = (1 :> TripOfFlow(1, d, s))
    /\ active = [u \in Users |-> IF u = 1 THEN 1 ELSE 0]
    /\ expenses = <<>>
    /\ buttons = {}
    /\ nextTripId = 2
    /\ nextEvent = 1
    /\ out = NoOut
    /\ typed = NoText
    /\ workers = [t \in Threads |-> IdleWorker]
    /\ limits = [trips |-> 0, events |-> MaxEvents, expenses |-> MaxExpenses]

NextLedger ==
    \/ \E w \in Views : cmd_view(1, w)
    \/ cb_menu_main(1)
    \/ \E w \in Views : cb_menu_view(1, w)
    \/ \E u \in Users, t \in TripIds : cb_switch_trip(u, t)
    \/ \E t \in TripIds : cb_setrate_choose(1, t)
    \/ \E t \in TripIds : cb_del_choose(1, t)
    \/ cb_del_cancel(1)
    \/ \E u \in Users, t \in TripIds, keep \in BOOLEAN : cb_del_confirm(u, t, keep)
    \/ cb_expense_no(1)
    \/ \E u \in Users, b \in buttons : cb_expense_confirm(u, b)
    \/ \E text \in LedgerTexts : handle_message(1, text)

SpecLedger == InitLedger /\ [][NextLedger]_vars

\* A step that changes a trip's balance is the commit of one expense row for
\* that trip, of an amount within the balance, which it debits exactly.
BalanceNonNegative == \A id \in DOMAIN trips : RLe(RZero, trips[id].balance)

DebitWithinBalance ==
    \A id \in DOMAIN trips \cap DOMAIN trips' :
        trips'[id].balance # trips[id].balance =>
            /\ Len(expenses') = Len(expenses) + 1
            /\ LET row == expenses'[Len(expenses')]
               IN  /\ row.trip = id
                   /\ RLt(RZero, row.amount_dest)
                   /\ RLe(row.amount_dest, trips[id].balance)
                   /\ trips'[id].balance = RSub(trips[id].balance, row.amount_dest)

\* C1: every trip's balance is >= 0 in every reachable state, and the
\* balance only ever moves by the exact debit of an expense that fits it: an
\* over-limit confirmation changes neither balance nor expense rows.
BalanceNeverNegative == []BalanceNonNegative /\ [][DebitWithinBalance]_vars

\* The owner's confirmation was declined because the button's amount exceeds
\* what an earlier expense left of the balance.
OverLimitDeclined ==
    /\ out = Sent(1, "expense_declined")
    /\ HasTrip(trips, 1, 1)
    /\ expenses # <<>>
    /\ \A b \in buttons : RLt(trips[1].balance, DecodeAmount(b.a_d))
    /\ buttons # {}

\* C2: no two expense rows come from the same bare-number message (the
\* same confirm button).
OneCommitPerEvent ==
    \A i, j \in DOMAIN expenses : expenses[i].event = expenses[j].event => i = j

WithinHalfCent(x, y) == RLe(RSub(x, y), Rat(1, 200)) /\ RLe(RSub(y, x), Rat(1, 200))

\* C4: the row a confirmation commits carries amount_home = amount_dest
\* times the rate the trip has when the confirmation is processed (to the
\* cent, the precision of the button).
CommitUsesCurrentRate ==
    [][Len(expenses') = Len(expenses) + 1 =>
        LET row == expenses'[Len(expenses')]
        IN  WithinHalfCent(row.amount_home, RMul(row.amount_dest, trips[row.trip].rate))]_vars

\* The steps of the manual path of the new-trip flow, as user 1 takes them.
FlowStep(from_state, to_state) ==
    ustate[1].state = from_state /\ ustate'[1].state = to_state

PayloadKeepsCurrencies ==
    LET old == Split(ustate[1].data, 2)
        new == Split(ustate'[1].data, 2)
    IN  Len(new) >= 2 /\ new[1] = old[1] /\ new[2] = old[2]

CountryFromResolved ==
    FlowStep("newtrip_country_from", "newtrip_country_to") =>
        ustate'[1].data = WordText(country_to_currency(Strip(typed')))

CountryToResolved ==
    FlowStep("newtrip_country_to", "newtrip_choose_rate_source") =>
        LET new == Split(ustate'[1].data, 2)
        IN  /\ Len(new) >= 2
            /\ new[1] = ustate[1].data
            /\ new[2] = DestCurrency(Strip(typed'))
            /\ new[1] # new[2]

EnterManuallyKeeps ==
    FlowStep("newtrip_choose_rate_source", "newtrip_manual_rate") =>
        PayloadKeepsCurrencies

ManualRateInverted ==
    FlowStep("newtrip_manual_rate", "newtrip_initial_sum") =>
        /\ is_number_message(typed')
        /\ RLt(RZero, parse_amount(typed'))
        /\ PayloadKeepsCurrencies
        /\ LET new == Split(ustate'[1].data, 3)
           IN  /\ Len(new) = 4
               /\ IsFloat(new[3])
               /\ FloatOf(new[3]) = RDiv(ROne, parse_amount(typed'))

TripCreatedFromPayload ==
    nextTripId' # nextTripId =>
        /\ ustate[1].state = "newtrip_initial_sum"
        /\ is_number_message(typed')
        /\ RLt(RZero, parse_amount(typed'))
        /\ nextTripId' = nextTripId + 1
        /\ DOMAIN trips' = DOMAIN trips \cup {nextTripId}
        /\ nextTripId \notin DOMAIN trips
        /\ \A id \in DOMAIN trips : trips'[id] = trips[id]
        /\ LET p == Split(ustate[1].data, 3)
               t == trips'[nextTripId]
           IN  /\ t.owner = 1
               /\ t.home = p[1]
               /\ t.dest = p[2]
               /\ t.rate = FloatOf(p[3])
               /\ t.balance = RMul(parse_amount(typed'), RDiv(ROne, t.rate))
        /\ ustate'[1] = Idle

\* C8: on the manual path the payload carries the resolved home and
\* destination currencies from step to step, the rate input d > 0 is
\* stored as 1/d, and the initial sum s > 0 creates exactly one trip with
\* those currencies, that rate and balance s * (1 / rate) = s * d, after
\* which the conversation state is idle.
ManualPathRateConvention ==
    [][/\ CountryFromResolved
       /\ CountryToResolved
       /\ EnterManuallyKeeps
       /\ ManualRateInverted
       /\ TripCreatedFromPayload]_vars

\* Rossiya, Tailand, enter manually, 2.5, 4: trip RUB -> THB, rate 0.4,
\* balance 10.
ManualTripCreated ==
    /\ out = Sent(1, "trip_created")
    /\ typed = FormatInt(4)
    /\ ustate[1] = Idle
    /\ DOMAIN trips = {1}
    /\ trips[1].home = WordText("RUB")
    /\ trips[1].dest = WordText("THB")
    /\ trips[1].rate = Rat(2, 5)
    /\ trips[1].balance = RInt(10)
    /\ active[1] = 1

\* ------------------------------------------------------------------------
\* The stored-state specification: the bot starts with a conversation state
\* of user 1 left in the store whose payload does not have the fields the
\* state expects; the handlers are those of the flow specification.
\* ------------------------------------------------------------------------
StoredCorrupt ==
    { [state |-> "newtrip_country_to", data |-> <<>>],
      [state |-> "newtrip_choose_rate_source", data |-> WordText("RUB")],
      [state |-> "newtrip_confirm_rate",
       data |-> Join(<<WordText("RUB"), WordText("THB"), WordText("abc"), WordText("Tailand")>>)],
      [state |-> "newtrip_manual_rate", data |-> WordText("RUB")],
      [state |-> "newtrip_manual_rate", data |-> <<>>],
      [state |-> "newtrip_initial_sum", data |-> WordText("RUB")],
      [state |-> "newtrip_initial_sum",
       data |-> Join(<<WordText("RUB"), WordText("THB"), WordText("abc"), WordText("Tailand")>>)],
      [state |-> "setrate_trip", data |-> WordText("abc")],
      [state |-> "setrate_trip", data |-> <<>>] }

InitStored ==
    /\ cache = <<>>
    /\ now = 0
    /\ conv = NoConv
    /\ \E c \in StoredCorrupt : ustate = [u \in Users |-> IF u = 1 THEN c ELSE Idle]
    /\ trips = <<>>
    /\ active = [u \in Users |-> 0]
    /\ expenses = <<>>
    /\ buttons = {}
    /\ nextTripId = 1
    /\ nextEvent = 1
    /\ out = NoOut
    /\ typed = NoText
    /\ workers = [t \in Threads |-> IdleWorker]
    /\ limits = [trips |-> MaxTrips, events |-> 0, expenses |-> 0]

SpecStored == InitStored /\ [][Next]_vars

\* C9: a text message handled in a flow state whose stored payload does
\* not parse clears the conversation state, answers with a start-over
\* message and raises nothing.
CorruptPayloadRecovers ==
    [][(ustate[1] \in StoredCorrupt /\ ustate[1].state \in FlowStates /\ typed' # NoText)
        => /\ ustate'[1] = Idle
           /\ out'.exc = ""
           /\ out'.msg \in StartOverMsgs]_vars

\* The replies of the menu's views.
MenuReplies ==
    {"no_trips", "trips_list", "setrate_list", "delete_list", "no_active_trip",
     "balance", "history", "history_empty"}

\* C10: a menu command, menu callback or menu keyboard button used while a
\* flow state is pending leaves the user idle.
MenuAbandonsFlow ==
    [][(ustate[1].state # "" /\ out'.to = 1 /\ out'.msg \in MenuReplies)
        => ustate'[1] = Idle]_vars

\* ------------------------------------------------------------------------
\* The worker specification: the bot's thread pool runs cb_expense_confirm
\* for several button presses at once. A handler decodes the button, calls
\* db.add_expense, then answers; add_expense reads, checks and writes the
\* balance in one step.
\* ------------------------------------------------------------------------
\* A check against the ledger as the handler first saw it.
LedgerAtBegin(w) == w.seen

\* The ledger db.add_expense checks the amount against: the one it writes.
LedgerAtCommit(w) == trips

\* cb_expense_confirm up to the call of db.add_expense; seen records the
\* ledger as it was when the handler started.
confirm_begin(th, u, b) ==
    /\ workers[th].pc = "idle"
    /\ workers' = [workers EXCEPT ![th] =
                     [pc |-> "commit", user |-> u, trip |-> b.trip,
                      amount_dest |-> DecodeAmount(b.a_d),
                      amount_home |-> DecodeAmount(b.a_h),
                      event |-> b.event, ok |-> FALSE, seen |-> trips]]
    /\ UNCHANGED <<cacheVars, botVars, limits>>

\* db.add_expense
confirm_commit(th) ==
    LET w == workers[th]
    IN  /\ w.pc = "commit"
        /\ IF ~AddExpenseAccepts(LedgerAtCommit(w), w.trip, w.user, w.amount_dest)
           THEN /\ workers' = [workers EXCEPT ![th].pc = "reply", ![th].ok = FALSE]
                /\ UNCHANGED <<trips, expenses>>
           ELSE /\ Len(expenses) < limits.expenses
                /\ trips' = Debit(trips, w.trip, w.amount_dest)
                /\ expenses' = Append(expenses,
                       ExpenseRow(w.trip, w.amount_dest, w.amount_home, w.event))
                /\ workers' = [workers EXCEPT ![th].pc = "reply", ![th].ok = TRUE]
        /\ UNCHANGED <<cacheVars, ustate, active, buttons, nextTripId, nextEvent,
                       out, typed, limits>>

\* cb_expense_confirm after db.add_expense
confirm_reply(th) ==
    LET w == workers[th]
    IN  /\ w.pc = "reply"
        /\ Reply(w.user, IF w.ok THEN "expense_recorded" ELSE "expense_declined")
        /\ workers' = [workers EXCEPT ![th] = IdleWorker]
        /\ UNCHANGED <<cacheVars, ustate, ledgerVars, buttons, nextEvent, typed, limits>>

WorkerAmounts == {RInt(4), Rat(5, 2)}

InitWorkers ==
    /\ cache = <<>>
    /\ now = 0
    /\ conv = NoConv
    /\ ustate = [u \in Users |-> Idle]
    /\ \E d \in LedgerRates, s \in LedgerSums : trips = (1 :> TripOfFlow(1, d, s))
    /\ active = [u \in Users |-> IF u = 1 THEN 1 ELSE 0]
    /\ expenses = <<>>
    /\ \E a \in WorkerAmounts, b \in WorkerAmounts :
          buttons = { Button(1, 1, a, HomeAmount(a, trips[1].rate), 1),
                      Button(1, 1, b, HomeAmount(b, trips[1].rate), 2) }
    /\ nextTripId = 2
    /\ nextEvent = 3
    /\ out = NoOut
    /\ typed = NoText
    /\ workers = [t \in Threads |-> IdleWorker]
    /\ limits = [trips |-> 0, events |-> 0, expenses |-> MaxExpenses]

NextWorkers ==
    \/ \E th \in Threads, b \in buttons : confirm_begin(th, 1, b)
    \/ \E th \in Threads : confirm_commit(th)
    \/ \E th \in Threads : confirm_reply(th)

SpecWorkers == InitWorkers /\ [][NextWorkers]_vars

\* C3: with confirmations running concurrently the balance is never
\* negative, and two committed expenses of a trip never add up to more than
\* the trip started with: of two amounts that each fit the balance but not
\* together, at most one is committed.
ConcurrentConfirmsNoOverdraw ==
    /\ \A id \in DOMAIN trips : RLe(RZero, trips[id].balance)
    /\ \A i, j \in DOMAIN expenses :
          (i < j /\ expenses[i].trip = expenses[j].trip /\ expenses[i].trip \in DOMAIN trips)
          => RLe(RAdd(expenses[i].amount_dest, expenses[j].amount_dest),
                 trips[expenses[i].trip].initial)

\* Both handlers started on the same balance, each amount fits it, the two
\* together do not; one was committed and the other declined.
StaleCheckDeclined ==
    /\ workers[1].pc = "reply"
    /\ workers[2].pc = "reply"
    /\ workers[1].seen = workers[2].seen
    /\ workers[1].seen[1].balance = trips[1].initial
    /\ workers[1].ok # workers[2].ok
    /\ workers[1].event # workers[2].event
    /\ RLe(workers[1].amount_dest, trips[1].initial)
    /\ RLe(workers[2].amount_dest, trips[1].initial)
    /\ RLt(trips[1].initial, RAdd(workers[1].amount_dest, workers[2].amount_dest))
    /\ Len(expenses) = 1

\* The replies of handle_message's menu and bare-number branches.
NonFlowReplies ==
    MenuReplies \cup
    {"ask_country_from", "choose_trip_first", "positive_amount_please",
     "expense_prompt", "not_understood"}

\* C11: a text message sent while a conversation state is pending is never
\* answered by the menu or bare-number branches of handle_message.
FlowClaimsText ==
    [][(ustate[1].state # "" /\ typed' # NoText) => out'.msg \notin NonFlowReplies]_vars

\* The flow states from choose_rate_source onward.
LaterStates ==
    {"newtrip_choose_rate_source", "newtrip_confirm_rate", "newtrip_manual_rate",
     "newtrip_initial_sum"}

PayloadCurrenciesDiffer ==
    ustate[1].state \in LaterStates =>
        LET p == Split(ustate[1].data, 2)
        IN  Len(p) >= 2 /\ p[1] # p[2]

TripCurrenciesDiffer == \A id \in DOMAIN trips : trips[id].home # trips[id].dest

SameDestRejected ==
    (/\ ustate[1].state = "newtrip_country_to"
     /\ typed' # NoText
     /\ DestCurrency(Strip(typed')) = ustate[1].data)
    => /\ ustate' = ustate
       /\ trips' = trips
       /\ out' = Sent(1, "dest_equals_home")

LaterKeepCurrencies ==
    (ustate[1].state \in LaterStates /\ ustate'[1].state \in LaterStates)
    => PayloadKeepsCurrencies

\* C12: home and destination currency differ in every trip and in the
\* payload of every flow state from choose_rate_source onward; in
\* country_to a destination equal to home is re-prompted with state and
\* payload unchanged, and no later transition changes either field.
DistinctCurrencies ==
    /\ [](PayloadCurrenciesDiffer /\ TripCurrenciesDiffer)
    /\ [][SameDestRejected /\ LaterKeepCurrencies]_vars

\* Home RUB, then "rub" typed as the destination: re-prompt.
SameDestReprompted ==
    /\ out.msg = "dest_equals_home"
    /\ ustate[1] = [state |-> "newtrip_country_to", data |-> WordText("RUB")]
    /\ typed = WordText("rub")

\* C13: every trip's rate is > 0 and no handler fails with a division
\* error.
RatePositiveNoDivisionError ==
    /\ \A id \in DOMAIN trips : RLt(RZero, trips[id].rate)
    /\ out.exc # "ZeroDivisionError"

DeclineChangesNothing ==
    out'.msg = "expense_declined" =>
        /\ trips' = trips
        /\ expenses' = expenses
        /\ active' = active
        /\ ustate' = ustate
        /\ out'.exc = ""

OnlyOwnerMovesBalance ==
    \A id \in DOMAIN trips \cap DOMAIN trips' :
        trips'[id].balance # trips[id].balance => out'.to = trips[id].owner

\* C14: a declined confirmation raises nothing and changes no trip, no
\* expense row, no active-trip pointer and no conversation state; a trip's
\* balance changes only in a step taken by its owner.
DeclineLeavesAllUnchanged == [][DeclineChangesNothing /\ OnlyOwnerMovesBalance]_vars

\* User 2 pressed user 1's confirm button, whose amount the untouched
\* balance would cover.
NonOwnerDeclined ==
    /\ out = Sent(2, "expense_declined")
    /\ HasTrip(trips, 1, 1)
    /\ trips[1].balance = trips[1].initial
    /\ expenses = <<>>
    /\ \E b \in buttons : b.trip = 1 /\ RLe(DecodeAmount(b.a_d), trips[1].balance)

ExpensesOfLiveTrips == \A i \in DOMAIN expenses : expenses[i].trip \in DOMAIN trips

Dangling(u) == active[u] # 0 /\ ~HasTrip(trips, active[u], u)

UsableReplies ==
    {"balance", "history", "history_empty", "expense_prompt", "expense_recorded"}

DanglingPointerUnusable ==
    \A u \in Users :
        (Dangling(u) /\ out'.to = u) =>
            /\ out'.msg \notin UsableReplies
            /\ expenses' = expenses
            /\ trips' = trips
            /\ buttons' = buttons

\* C15: no expense row outlives its trip (a deleted trip's expense list is
\* empty), and while a user's active-trip pointer names a trip that no longer
\* exists, no event of that user shows a balance or a history, offers a
\* confirm choice or commits an expense.
DeleteCascadesAndPointerIgnored ==
    /\ []ExpensesOfLiveTrips
    /\ [][DanglingPointerUnusable]_vars

\* The active trip was deleted with the pointer left in place, and a confirm
\* button issued before the deletion was then pressed by its owner.
StaleConfirmAfterDelete ==
    /\ active[1] = 1
    /\ 1 \notin DOMAIN trips
    /\ out = Sent(1, "expense_declined")
    /\ \E b \in buttons : b.trip = 1
    /\ expenses = <<>>

SetRateInput ==
    /\ ustate[1].state = "setrate_trip"
    /\ typed' # NoText
    /\ is_number_message(typed')
    /\ PositiveAmount(parse_amount(typed'))
    /\ IsInt(ustate[1].data)
    /\ HasTrip(trips, IntOf(ustate[1].data), 1)

SetRateApplied ==
    SetRateInput =>
        LET id == IntOf(ustate[1].data)
        IN  /\ DOMAIN trips' = DOMAIN trips
            /\ trips'[id].rate = parse_amount(typed')
            /\ trips'[id].balance = trips[id].balance
            /\ trips'[id].initial = trips[id].initial
            /\ trips'[id].home = trips[id].home
            /\ trips'[id].dest = trips[id].dest
            /\ trips'[id].name = trips[id].name
            /\ trips'[id].owner = trips[id].owner
            /\ \A t \in DOMAIN trips \ {id} : trips'[t] = trips[t]
            /\ expenses' = expenses
            /\ active' = active
            /\ ustate'[1] = Idle
            /\ out' = Sent(1, "rate_updated")

BareNumber ==
    /\ ustate[1].state = ""
    /\ typed' # NoText
    /\ is_number_message(typed')
    /\ HasTrip(trips, active[1], 1)

LedgerAndStateKept ==
    /\ trips' = trips
    /\ expenses' = expenses
    /\ active' = active
    /\ ustate' = ustate

PositiveNumberPrompts ==
    (BareNumber /\ RLt(RZero, parse_amount(typed'))) =>
        /\ out' = Sent(1, "expense_prompt")
        /\ \E b \in buttons' \ buttons :
              /\ b.trip = active[1]
              /\ buttons' = buttons \cup {b}
        /\ LedgerAndStateKept

NonPositiveNumberNoChoice ==
    (BareNumber /\ RLe(parse_amount(typed'), RZero)) =>
        /\ out'.msg # "expense_prompt"
        /\ buttons' = buttons
        /\ LedgerAndStateKept

CancelChangesNothing ==
    out'.msg = "expense_not_recorded" => (buttons' = buttons /\ LedgerAndStateKept)

OnlyConfirmCommits ==
    (Len(expenses') > Len(expenses) \/
     \E id \in DOMAIN trips \cap DOMAIN trips' : trips'[id].balance # trips[id].balance)
        => (out'.msg = "expense_recorded" /\ typed' = NoText)

\* C17: with no pending state and a valid active trip, a bare positive
\* number only offers the confirm/cancel choice; a bare number <= 0 offers
\* none; cancel changes nothing; an expense row is added and a balance moves
\* only in the step of the confirm callback.
CommitOnlyOnConfirm ==
    [][/\ PositiveNumberPrompts
       /\ NonPositiveNumberNoChoice
       /\ CancelChangesNothing
       /\ OnlyConfirmCommits]_vars

\* The bare number 4 was answered with the choice; nothing is spent yet.
PromptedNotCommitted ==
    /\ out = Sent(1, "expense_prompt")
    /\ typed = FormatInt(4)
    /\ ustate[1] = Idle
    /\ buttons # {}
    /\ expenses = <<>>
    /\ HasTrip(trips, 1, 1)
    /\ trips[1].balance = trips[1].initial

\* ------------------------------------------------------------------------
\* The button's amount fields at the width of a Python float
\*
\* Elsewhere amounts are exact rationals. Here they are binary64: a
\* 53-bit significand m (2^52 <= m < 2^53) and an exponent e, value m * 2^e.
\* Integers wider than TLC's are three limbs <<h, m, l>> of 20 bits, value
\* h * 2^40 + m * 2^20 + l; the top limb may exceed 20 bits.
\* ------------------------------------------------------------------------
Limb == 1024 * 1024

BZero == <<0, 0, 0>>
Two52 == <<4096, 0, 0>>
Two53 == <<8192, 0, 0>>
Two59 == <<524288, 0, 0>>
HundredTwo52 == <<409600, 0, 0>>

BMul(b, c) ==
    LET t0 == b[3] * c
        t1 == b[2] * c + t0 \div Limb
        t2 == b[1] * c + t1 \div Limb
    IN  <<t2, t1 % Limb, t0 % Limb>>

BDivMod(b, c) ==
    LET t1 == (b[1] % c) * Limb + b[2]
        t0 == (t1 % c) * Limb + b[3]
    IN  [q |-> <<b[1] \div c, t1 \div c, t0 \div c>>, r |-> t0 % c]

BAdd(b, c) ==
    LET t0 == b[3] + c
        t1 == b[2] + t0 \div Limb
    IN  <<b[1] + t1 \div Limb, t1 % Limb, t0 % Limb>>

BLt(a, b) ==
    \/ a[1] < b[1]
    \/ a[1] = b[1] /\ a[2] < b[2]
    \/ a[1] = b[1] /\ a[2] = b[2] /\ a[3] < b[3]

BOdd(b) == b[3] % 2 = 1

\* b / c rounded to the nearest integer, ties to even.
BDivRound(b, c) ==
    LET d == BDivMod(b, c)
    IN  IF 2 * d.r < c THEN d.q
        ELSE IF 2 * d.r > c THEN BAdd(d.q, 1)
        ELSE IF BOdd(d.q) THEN BAdd(d.q, 1) ELSE d.q

\* str(n) and int(field) of the callback data: decimal digits.
RECURSIVE Digits(_)
Digits(b) ==
    LET d == BDivMod(b, 10)
    IN  IF d.q = BZero THEN <<d.r>> ELSE Append(Digits(d.q), d.r)

RECURSIVE IntOfDigits(_)
IntOfDigits(ds) ==
    IF ds = <<>> THEN BZero
    ELSE BAdd(BMul(IntOfDigits(SubSeq(ds, 1, Len(ds) - 1)), 10), ds[Len(ds)])

DZero == [m |-> BZero, e |-> 0]

\* A significand rounded up to 2^53 is 2^52 one exponent higher.
Normal(m, e) == IF m = Two53 THEN [m |-> Two52, e |-> e + 1] ELSE [m |-> m, e |-> e]

RECURSIVE ScaleUp(_, _)
ScaleUp(t, s) ==
    IF BLt(BMul(t, 128), HundredTwo52) THEN ScaleUp(BMul(t, 128), s + 7)
    ELSE IF BLt(t, HundredTwo52) THEN ScaleUp(BMul(t, 2), s + 1)
    ELSE [t |-> t, s |-> s]

\* n / 100.0 for an integer 0 <= n < 2^53 (exact as a float): the quotient
\* correctly rounded. It is also float() of the decimal text with two
\* decimals whose digits are n.
DivHundred(n) ==
    IF n = BZero THEN DZero
    ELSE LET u == ScaleUp(n, 0) IN Normal(BDivRound(u.t, 100), 0 - u.s)

\* x * 100: the product correctly rounded to 53 bits.
TimesHundred(x) ==
    IF x = DZero THEN DZero
    ELSE LET p == BMul(x.m, 100)
         IN  IF BLt(p, Two59) THEN Normal(BDivRound(p, 64), x.e + 6)
             ELSE Normal(BDivRound(p, 128), x.e + 7)

RECURSIVE ShiftLeft(_, _)
ShiftLeft(q, p) == IF p = 0 THEN q ELSE ShiftLeft(BMul(q, 2), p - 1)

\* q with p low bits dropped, up to seven at a time; guard is the last bit
\* dropped, sticky tells whether any bit dropped before it was set.
RECURSIVE ShiftRight(_, _, _, _)
ShiftRight(q, p, guard, sticky) ==
    IF p = 0 THEN [q |-> q, guard |-> guard, sticky |-> sticky]
    ELSE LET c == IF p >= 7 THEN 7 ELSE p
             half == 2 ^ (c - 1)
             d == BDivMod(q, 2 * half)
         IN  ShiftRight(d.q, p - c, IF d.r >= half THEN 1 ELSE 0,
                        IF guard = 1 \/ sticky = 1 \/ d.r % half # 0 THEN 1 ELSE 0)

\* int(round(y)): the nearest integer, ties to even.
RoundToInt(y) ==
    IF y.e >= 0 THEN ShiftLeft(y.m, y.e)
    ELSE LET s == ShiftRight(y.m, 0 - y.e, 0, 0)
         IN  IF s.guard = 1 /\ (s.sticky = 1 \/ BOdd(s.q)) THEN BAdd(s.q, 1) ELSE s.q

\* expense_confirm_markup: int(round(amount * 100))
EncodeAmountDouble(x) == RoundToInt(TimesHundred(x))

\* cb_expense_confirm: int(field) / 100.0
DecodeAmountDouble(field) == DivHundred(IntOfDigits(field))

\* ------------------------------------------------------------------------
\* Specification of the button codec: worker 1 holds the two amounts the
\* prompt was built for, the button carries their fields, worker 2 holds
\* what the confirm callback reads back.
\* ------------------------------------------------------------------------
\* Amounts with two decimals, written as the digits of their hundredths:
\* 0.01, 1.15, 2.55, 12.50, 1000.00, 35184893044893.77, 35184893044893.78,
\* 72057647896948.49
CodecAmounts ==
    { <<1>>, <<1, 1, 5>>, <<2, 5, 5>>, <<1, 2, 5, 0>>, <<1, 0, 0, 0, 0, 0>>,
      <<3, 5, 1, 8, 4, 8, 9, 3, 0, 4, 4, 8, 9, 3, 7, 7>>,
      <<3, 5, 1, 8, 4, 8, 9, 3, 0, 4, 4, 8, 9, 3, 7, 8>>,
      <<7, 2, 0, 5, 7, 6, 4, 7, 8, 9, 6, 9, 4, 8, 4, 9>> }

InitCodec ==
    /\ cache = <<>>
    /\ now = 0
    /\ conv = NoConv
    /\ ustate = [u \in Users |-> Idle]
    /\ trips = <<>>
    /\ active = [u \in Users |-> 0]
    /\ expenses = <<>>
    /\ buttons = {}
    /\ nextTripId = 1
    /\ nextEvent = 1
    /\ out = NoOut
    /\ typed = NoText
    /\ \E d \in CodecAmounts, h \in CodecAmounts :
          workers = [t \in Threads |->
                       IF t = 1
                       THEN [IdleWorker EXCEPT !.pc = "prompt",
                                               !.amount_dest = DivHundred(IntOfDigits(d)),
                                               !.amount_home = DivHundred(IntOfDigits(h))]
                       ELSE IdleWorker]
    /\ limits = [trips |-> 0, events |-> 0, expenses |-> 0]

\* expense_confirm_markup(trip_id, amount_dest, amount_home)
markup_fields ==
    /\ workers[1].pc = "prompt"
    /\ buttons' = {[chat |-> 1, trip |-> 1,
                    a_d |-> Digits(EncodeAmountDouble(workers[1].amount_dest)),
                    a_h |-> Digits(EncodeAmountDouble(workers[1].amount_home)),
                    event |-> 1]}
    /\ workers' = [workers EXCEPT ![1].pc = "sent"]
    /\ UNCHANGED <<cache, now, conv, ustate, trips, active, expenses,
                   nextTripId, nextEvent, out, typed, limits>>

\* cb_expense_confirm, up to the call of add_expense
confirm_fields ==
    /\ workers[2].pc = "idle"
    /\ \E b \in buttons :
          workers' = [workers EXCEPT ![2].pc = "read",
                                     ![2].trip = b.trip,
                                     ![2].amount_dest = DecodeAmountDouble(b.a_d),
                                     ![2].amount_home = DecodeAmountDouble(b.a_h)]
    /\ UNCHANGED <<cache, now, conv, ustate, trips, active, expenses, buttons,
                   nextTripId, nextEvent, out, typed, limits>>

NextCodec == markup_fields \/ confirm_fields

SpecCodec == InitCodec /\ [][NextCodec]_vars

\* C18: the amounts the confirm callback reads from the button are the
\* amounts the button was built for, for both fields, whenever those have
\* two decimals.
ScaledIntegerRoundTrip ==
    workers[2].pc = "read" =>
        /\ workers[2].amount_dest = workers[1].amount_dest
        /\ workers[2].amount_home = workers[1].amount_home

\* The failure texts convert can hand to cb_newtrip_fetch_rate.
FailureInfos ==
    {InfoConnect, InfoTimeout, InfoDecode, InfoLimit, InfoKey, InfoUnknownDict,
     InfoUnknownFlat}

FetchFailed ==
    /\ ustate[1].state = "newtrip_choose_rate_source"
    /\ conv' # NoConv
    /\ ~conv'.ret.success
    /\ conv'.ret.error # "AttributeError"

\* C19: when the lookup fails, the message sent is the message any other
\* failure of the same class (limit or not) would have produced with the
\* same currencies: it depends on the failure text only through is_limit.
FailureTextNotShown ==
    [][FetchFailed =>
         \A other \in FailureInfos :
            is_limit(other) = is_limit(conv'.ret.info) =>
               /\ out'.msg = FailureMessage(other, conv'.to, conv'.from).msg
               /\ out'.args = FailureMessage(other, conv'.to, conv'.from).args
               /\ out'.exc = ""]_vars

\* A timed-out request was answered with the limit message, the message a
\* reported usage limit gets as well.
TimeoutAnsweredAsLimit ==
    /\ conv # NoConv
    /\ conv.ret.info = InfoTimeout
    /\ is_limit(InfoLimit)
    /\ out.to = 1
    /\ out.msg = "rate_limit_enter_manually"
    /\ out.args = <<WordText("THB"), WordText("RUB")>>
    /\ ustate[1].state = "newtrip_manual_rate"

NumericStates == {"newtrip_manual_rate", "newtrip_initial_sum", "setrate_trip"}

\* The text handed to the flow engine is not acceptable in the state it
\* finds: an unknown country, a destination equal to home, or a text that
\* is not a number above zero.
InvalidInput ==
    /\ typed' # NoText
    /\ \/ /\ ustate[1].state = "newtrip_country_from"
          /\ country_to_currency(Strip(typed')) = ""
       \/ /\ ustate[1].state = "newtrip_country_to"
          /\ \/ DestCurrency(Strip(typed')) = <<>>
             \/ DestCurrency(Strip(typed')) = ustate[1].data
       \/ /\ ustate[1].state \in NumericStates
          /\ \/ ~is_number_message(typed')
             \/ RLe(parse_amount(typed'), RZero)

RetryReplies ==
    {"country_from_retry", "country_to_retry", "dest_equals_home",
     "manual_rate_retry", "initial_sum_retry", "setrate_retry"}

\* C20: in the five text states an invalid input is answered with a
\* re-prompt; the state tag and payload stay exactly as they were, no trip is
\* created or changed, and nothing is raised.
InvalidInputReprompts ==
    [][InvalidInput =>
         /\ ustate' = ustate
         /\ trips' = trips
         /\ expenses' = expenses
         /\ active' = active
         /\ nextTripId' = nextTripId
         /\ out'.to = 1
         /\ out'.exc = ""
         /\ out'.msg \in RetryReplies]_vars

\* Zero was typed as the initial sum: re-prompted, payload kept, no trip.
ZeroSumReprompted ==
    /\ typed = FormatInt(0)
    /\ out = Sent(1, "initial_sum_retry")
    /\ ustate[1].state = "newtrip_initial_sum"
    /\ Len(Split(ustate[1].data, 3)) = 4
    /\ trips = <<>>

\* The lookup of a fetch choice did not give a rate: convert returned a
\* failure or raised.
LookupFailed ==
    /\ ustate[1].state = "newtrip_choose_rate_source"
    /\ conv' # NoConv
    /\ ~conv'.ret.success

\* C21: a failed lookup moves the user to manual_rate with the payload's
\* home, dest and name as they were, and raises nothing.
FailedLookupFallsBack ==
    [][LookupFailed =>
         /\ ustate'[1].state = "newtrip_manual_rate"
         /\ Split(ustate'[1].data, 2) = Split(ustate[1].data, 2)
         /\ out'.exc = ""]_vars

\* The provider itself reported a usage limit.
RateLimitReported == conv'.ret.error = "api_error" /\ is_limit(conv'.ret.info)

\* C22: after a failed lookup the rate-limit message is sent exactly when
\* the failure is a rate limit; every other failure, a connection error or
\* a timeout included, gets the 'service unavailable' message.
MessageClassifiedByCause ==
    [][FetchFailed =>
         /\ out'.msg = "rate_limit_enter_manually" <=> RateLimitReported
         /\ out'.msg = "service_unavailable_enter_manually" <=> ~RateLimitReported]_vars

\* The step called the provider (a cache hit calls nobody).
ProviderCalled == conv' # NoConv /\ conv'.called

\* C23: the provider is called only in the step of a fetch choice taken in
\* choose_rate_source with a payload of at least home|dest; typed texts,
\* the other buttons and a fetch button pressed in any other state call
\* nobody.
ProviderCalledOnlyOnFetch ==
    [][/\ ProviderCalled =>
             /\ ustate[1].state = "newtrip_choose_rate_source"
             /\ Len(Split(ustate[1].data, 2)) >= 2
             /\ typed' = NoText
       /\ out'.msg \in {"session_expired", "ask_manual_rate", "ask_initial_sum"}
             => (conv' = NoConv /\ cache' = cache)]_vars

\* The fetch button was pressed while a manual rate was awaited: answered
\* 'session expired', nobody called, state kept.
StaleFetchCallsNobody ==
    /\ out = Sent(1, "session_expired")
    /\ ustate[1].state = "newtrip_manual_rate"
    /\ conv = NoConv

RateButtonStep == typed' = NoText /\ conv' = NoConv

RateAccepted ==
    (ustate[1].state = "newtrip_confirm_rate" /\ RateButtonStep /\ out'.msg = "ask_initial_sum") =>
        /\ ustate'[1].state = "newtrip_initial_sum"
        /\ Len(Split(ustate[1].data, 3)) = 4
        /\ Split(ustate'[1].data, 3) = Split(ustate[1].data, 3)
        /\ trips' = trips

RateRejected ==
    (ustate[1].state = "newtrip_confirm_rate" /\ RateButtonStep /\ out'.msg = "ask_manual_rate") =>
        /\ ustate'[1].state = "newtrip_manual_rate"
        /\ LET old == Split(ustate[1].data, 3)
           IN  Split(ustate'[1].data, 3) = <<old[1], old[2], old[4]>>
        /\ trips' = trips

\* No step leaves confirm_rate for initial_sum or manual_rate other than
\* the two answered above.
RateButtonsOnlyWay ==
    (ustate[1].state = "newtrip_confirm_rate" /\
     ustate'[1].state \in {"newtrip_initial_sum", "newtrip_manual_rate"})
        => (RateButtonStep /\ out'.msg \in {"ask_initial_sum", "ask_manual_rate"})

StaleRateButton ==
    (RateButtonStep /\ out'.msg = "session_expired") =>
        (ustate' = ustate /\ trips' = trips /\ expenses' = expenses)

\* C24: accepting the fetched rate moves confirm_rate to initial_sum with
\* home, dest, rate and name as they were; rejecting moves to manual_rate
\* with home, dest and name and without the rate; a rate button pressed in
\* another state changes neither state nor payload and creates no trip.
ConfirmRateKeepsPayload ==
    [][RateAccepted /\ RateRejected /\ RateButtonsOnlyWay /\ StaleRateButton]_vars

\* The fetched rate 1/2 was rejected: manual_rate without the rate field.
RateRejectedWitness ==
    /\ out = Sent(1, "ask_manual_rate")
    /\ conv = NoConv
    /\ ustate[1] = [state |-> "newtrip_manual_rate",
                    data |-> Join(<<WordText("RUB"), WordText("THB"), WordText("Tailand")>>)]
    /\ cache # <<>>

\* A valid rate arrives in the set-rate state for a trip that is gone.
RateForMissingTrip ==
    /\ ustate[1].state = "setrate_trip"
    /\ typed' # NoText
    /\ is_number_message(typed')
    /\ RLt(RZero, parse_amount(typed'))
    /\ IsInt(ustate[1].data)
    /\ \/ IntOf(ustate[1].data) \notin DOMAIN trips
       \/ trips[IntOf(ustate[1].data)].owner # 1

\* C25: if the trip chosen for the rate change no longer exists when the
\* new rate arrives, no trip changes, the state is cleared to idle and
\* nothing is raised.
SetRateOnMissingTripResets ==
    [][RateForMissingTrip =>
         /\ trips' = trips
         /\ expenses' = expenses
         /\ ustate'[1] = Idle
         /\ out' = Sent(1, "trip_not_found")]_vars

\* The trip was deleted (pointer cleared) after it was chosen, then 4 was
\* typed as its new rate.
RateTypedAfterDelete ==
    /\ typed = FormatInt(4)
    /\ out = Sent(1, "trip_not_found")
    /\ active[1] = 0
    /\ trips = <<>>
    /\ ustate[1] = Idle

\* ------------------------------------------------------------------------
\* Specification of the session: TeleBot runs handle_message on its worker
\* threads, so two messages of user 1 can be in handle_message at once.
\* The user has been asked for the initial sum. A handler reads the stored
\* state (db.get_user_state), then runs the branch for what it read.
\* ------------------------------------------------------------------------
SessionTexts == NumberTexts \cup {WordText("hello")}

InitSessions ==
    /\ cache = <<>>
    /\ now = 0
    /\ conv = NoConv
    /\ \E d \in LedgerRates :
          ustate = [u \in Users |->
                      IF u = 1
                      THEN [state |-> "newtrip_initial_sum",
                            data |-> Join(<<WordText("RUB"), WordText("THB"),
                                            FormatFloat(ManualRate(d)), WordText("Tailand")>>)]
                      ELSE Idle]
    /\ trips = <<>>
    /\ active = [u \in Users |-> 0]
    /\ expenses = <<>>
    /\ buttons = {}
    /\ nextTripId = 1
    /\ nextEvent = 1
    /\ out = NoOut
    /\ typed = NoText
    /\ workers = [t \in Threads |-> IdleWorker]
    /\ limits = [trips |-> MaxTrips + 1, events |-> MaxEvents, expenses |-> 0]

\* handle_message up to its dispatch, the state read being initial_sum.
message_read(th, text) ==
    /\ workers[th].pc = "idle"
    /\ ustate[1].state = "newtrip_initial_sum"
    /\ workers' = [workers EXCEPT ![th] =
                     [IdleWorker EXCEPT !.pc = "sum", !.user = 1,
                                        !.seen = [data |-> ustate[1].data, text |-> text]]]
    /\ UNCHANGED <<cacheVars, botVars, limits>>

\* handle_newtrip_initial_sum, called with the state data read earlier.
message_initial_sum(th) ==
    LET w == workers[th]
    IN  /\ w.pc = "sum"
        /\ handle_newtrip_initial_sum(w.user, w.seen.text, w.seen.data)
        /\ workers' = [workers EXCEPT ![th] = IdleWorker]
        /\ typed' = w.seen.text
        /\ conv' = NoConv
        /\ UNCHANGED <<cache, now, limits>>

\* handle_message reading any other state.
message_other(text) ==
    /\ ustate[1].state # "newtrip_initial_sum"
    /\ handle_message(1, text)

NextSessions ==
    \/ \E th \in Threads, text \in SessionTexts : message_read(th, text)
    \/ \E th \in Threads : message_initial_sum(th)
    \/ \E text \in SessionTexts : message_other(text)

SpecSessions == InitSessions /\ [][NextSessions]_vars

\* C26: the one new-trip flow waiting for its initial sum creates at most
\* one trip, however the user's messages are delivered.
OneFlowOneTrip == Cardinality(DOMAIN trips) <= 1

\* ------------------------------------------------------------------------
\* Ledger conservation
\* ------------------------------------------------------------------------
\* The sum of amount_dest over the first n expense rows that belong to trip id.
RECURSIVE SpentOn(_, _, _)
SpentOn(ex, id, n) ==
    IF n = 0 THEN RZero
    ELSE IF ex[n].trip = id
         THEN RAdd(SpentOn(ex, id, n - 1), ex[n].amount_dest)
         ELSE SpentOn(ex, id, n - 1)

Conserved(tr, ex) ==
    \A id \in DOMAIN tr :
        tr[id].balance = RSub(tr[id].initial, SpentOn(ex, id, Len(ex)))

\* A step keeps both sides of the ledger of every trip it does not delete,
\* or it is a commit: one more row, and the balance lower by that row.
BothSidesTogether ==
    \A id \in DOMAIN trips \cap DOMAIN trips' :
        /\ trips'[id].initial = trips[id].initial
        /\ \/ /\ trips'[id].balance = trips[id].balance
              /\ SpentOn(expenses', id, Len(expenses')) = SpentOn(expenses, id, Len(expenses))
           \/ /\ Len(expenses') = Len(expenses) + 1
              /\ expenses'[Len(expenses')].trip = id
              /\ trips'[id].balance =
                     RSub(trips[id].balance, expenses'[Len(expenses')].amount_dest)

\* C27: in every reachable state the balance of every existing trip is its
\* initial amount less the sum of amount_dest over its expense rows; a step
\* changes the balance and the rows together (a commit) or changes neither.
LedgerConservation == []Conserved(trips, expenses) /\ [][BothSidesTogether]_vars

\* Two expenses were committed on the trip and its rate was set afterwards.
TwoRowsAndRateSet ==
    /\ 1 \in DOMAIN trips
    /\ Len(expenses) = 2
    /\ RLt(trips[1].balance, trips[1].initial)
    /\ out = Sent(1, "rate_updated")

\* ------------------------------------------------------------------------
\* The switching specification: user 1 owns two trips created by the flow
\* and types amounts, switches the active trip and presses the buttons of
\* the prompts in any order.
\* ------------------------------------------------------------------------
SwitchTrips == {1, 2}

InitSwitch ==
    /\ cache = <<>>
    /\ now = 0
    /\ conv = NoConv
    /\ ustate = [u \in Users |-> Idle]
    /\ \E d1, d2 \in LedgerRates, s \in LedgerSums :
          trips = (1 :> TripOfFlow(1, d1, s)) @@ (2 :> TripOfFlow(1, d2, s))
    /\ \E a \in SwitchTrips : active = [u \in Users |-> IF u = 1 THEN a ELSE 0]
    /\ expenses = <<>>
    /\ buttons = {}
    /\ nextTripId = 3
    /\ nextEvent = 1
    /\ out = NoOut
    /\ typed = NoText
    /\ workers = [t \in Threads |-> IdleWorker]
    /\ limits = [trips |-> 0, events |-> MaxEvents + 1, expenses |-> MaxExpenses]

NextSwitch ==
    \/ \E t \in SwitchTrips : cb_switch_trip(1, t)
    \/ cb_expense_no(1)
    \/ \E b \in buttons : cb_expense_confirm(1, b)
    \/ \E text \in NumberTexts : handle_message(1, text)

SpecSwitch == InitSwitch /\ [][NextSwitch]_vars

\* A new confirm button names the trip that is active when the amount is typed.
PromptNamesActiveTrip ==
    \A b \in buttons' \ buttons : b.trip = active[1] /\ b.event = nextEvent

\* A committed row is the row of one button; its trip is that button's trip,
\* and the balance of every other trip is as before.
CommitOnButtonTrip ==
    Len(expenses') > Len(expenses) =>
        LET row == expenses'[Len(expenses')]
        IN  /\ \E b \in buttons : b.event = row.event /\ b.trip = row.trip
            /\ \A id \in DOMAIN trips : id # row.trip => trips'[id] = trips[id]
            /\ trips'[row.trip].balance = RSub(trips[row.trip].balance, row.amount_dest)
            /\ SubSeq(expenses', 1, Len(expenses)) = expenses

\* C28: an expense is committed against the trip that was active when its
\* amount was typed, the trip named by the button, whatever trip is active
\* when the button is pressed; no other trip's balance or rows change.
ExpenseGoesToPromptedTrip == [][PromptNamesActiveTrip /\ CommitOnButtonTrip]_vars

\* The amount was typed with one trip active and confirmed with the other
\* active: the row and the debit are on the first, the second is untouched.
ConfirmedAfterSwitch ==
    /\ Len(expenses) = 1
    /\ out = Sent(1, "expense_recorded")
    /\ active[1] # expenses[1].trip
    /\ RLt(trips[expenses[1].trip].balance, trips[expenses[1].trip].initial)
    /\ trips[active[1]].balance = trips[active[1]].initial

\* ------------------------------------------------------------------------
\* The content of the rate cache
\* ------------------------------------------------------------------------
LowerCodes == {"rub", "thb"}
UpperCased(t) == \A i \in DOMAIN t : t[i].s \notin LowerCodes

\* Every entry is a success stamped no later than the clock, under a key of
\* two upper-cased codes.
CacheEntriesValid ==
    \A k \in DOMAIN cache :
        /\ cache[k].res.success
        /\ cache[k].at <= now
        /\ UpperCased(k[1]) /\ UpperCased(k[2])

\* A hit is served from the entry of the ordered pair asked for.
HitFromOwnPair ==
    (ConvMade /\ conv.hit) =>
        /\ ConvHadEntry
        /\ conv.ret.result =
              HitResult(conv.before[ConvKey].res, ConvKey[1], ConvKey[2], conv.amount).result

\* A step removes no entry; the entry it writes is the one of the pair of
\* the call it makes, a success fetched from the provider, stamped with the
\* time of the call, later than the stamp it replaces.
CacheOnlyRefreshed ==
    /\ DOMAIN cache \subseteq DOMAIN cache'
    /\ \A k \in DOMAIN cache' :
          (k \notin DOMAIN cache \/ cache'[k] # cache[k]) =>
              /\ conv'.called
              /\ k = <<UpperText(conv'.from), UpperText(conv'.to)>>
              /\ cache'[k] = [res |-> conv'.ret, at |-> now]
              /\ conv'.ret.success
              /\ k \in DOMAIN cache => cache[k].at < cache'[k].at

\* C29: every cache entry holds a success stamped with the time of the call
\* that fetched it, under the upper-cased ordered pair (a hit uses only the
\* entry of its own ordered pair); an entry is never removed and is replaced
\* only by a later success.
CacheContentInvariant ==
    /\ [](CacheEntriesValid /\ HitFromOwnPair)
    /\ [][CacheOnlyRefreshed]_vars

\* Both directions of a pair are cached with different quotes, one of them
\* replaced after expiry by the call just made in lower case.
BothDirectionsCached ==
    LET rt == <<WordText("RUB"), WordText("THB")>>
        tr == <<WordText("THB"), WordText("RUB")>>
    IN  /\ rt \in DOMAIN cache /\ tr \in DOMAIN cache
        /\ conv.from = WordText("rub")
        /\ conv.called
        /\ rt \in DOMAIN conv.before
        /\ conv.before[rt].at < cache[rt].at
        /\ cache[tr].at < cache[rt].at
        /\ cache[tr].res.result # cache[rt].res.result

\* ------------------------------------------------------------------------
\* The progress specification: user 1 starts the new-trip flow when no flow
\* is pending and then sends texts and presses the flow's buttons in any
\* order, the provider answering anything; whenever a valid input for the
\* pending step can be given, one is eventually given.
\* ------------------------------------------------------------------------
NewTripStates ==
    {"newtrip_country_from", "newtrip_country_to", "newtrip_choose_rate_source",
     "newtrip_confirm_rate", "newtrip_manual_rate", "newtrip_initial_sum"}

ProgressTexts == CountryTexts \cup NumberTexts \cup {WordText("hello")}

\* /newtrip or the menu button, with no flow pending.
StartFlow(u) ==
    /\ ustate[u].state \notin NewTripStates
    /\ (cmd_newtrip(u) \/ cb_menu_newtrip(u))

\* The input the pending step asks for: a resolvable home country, a
\* resolvable destination of another currency, a rate choice, a positive
\* rate, a positive initial sum.
ValidInput(u) ==
    LET st == ustate[u]
    IN  \/ /\ st.state = "newtrip_country_from"
           /\ \E text \in CountryTexts :
                 country_to_currency(Strip(text)) # "" /\ handle_message(u, text)
        \/ /\ st.state = "newtrip_country_to"
           /\ \E text \in CountryTexts :
                 /\ DestCurrency(Strip(text)) \notin {<<>>, st.data}
                 /\ handle_message(u, text)
        \/ /\ st.state = "newtrip_choose_rate_source"
           /\ \/ cb_newtrip_manual_rate_now(u)
              \/ \E o \in ProviderOutcomes : cb_newtrip_fetch_rate(u, o)
        \/ /\ st.state = "newtrip_confirm_rate"
           /\ (cb_newtrip_rate_ok(u) \/ cb_newtrip_rate_manual(u))
        \/ /\ st.state \in {"newtrip_manual_rate", "newtrip_initial_sum"}
           /\ \E text \in NumberTexts :
                 /\ is_number_message(text) /\ PositiveAmount(parse_amount(text))
                 /\ handle_message(u, text)

NextProgress ==
    \/ StartFlow(1)
    \/ \E text \in ProgressTexts : handle_message(1, text)
    \/ \E o \in ProviderOutcomes : cb_newtrip_fetch_rate(1, o)
    \/ cb_newtrip_manual_rate_now(1)
    \/ cb_newtrip_rate_ok(1)
    \/ cb_newtrip_rate_manual(1)
    \/ Tick

SpecProgress == Init /\ [][NextProgress]_vars /\ WF_vars(ValidInput(1))

\* C30: a new-trip flow that is pending is eventually finished: the state
\* is idle again and the flow has created its trip, the one new trip.
NewTripFlowCompletes ==
    \A n \in 1 .. MaxTrips :
        (ustate[1].state \in NewTripStates /\ nextTripId = n)
            ~> (ustate[1] = Idle /\ nextTripId = n + 1 /\ DOMAIN trips = 1 .. n)
====
